---- MODULE Spec2Model ----
(***************************************************************************)
(* kperf request scheduling: Schedule (request package) running one       *)
(* executor (WeightedRandomExecutor or TimeSeriesExecutor) and a pool of  *)
(* workers over an unbuffered channel of request builders.                *)
(*                                                                         *)
(* Goroutines are modelled one step per shared-memory operation.  A       *)
(* goroutine blocked in a select or a channel receive is "parked": the    *)
(* operation that makes one of its cases ready (a rendezvous partner, a   *)
(* context cancellation, a timer, a close) commits it to that case in the *)
(* same step, as the Go runtime does.  A goroutine that reaches a select  *)
(* with several cases ready takes any of them.  An unrecovered panic ends *)
(* the whole process.                                                     *)
(***************************************************************************)
EXTENDS Integers, Sequences, FiniteSets, Bags, TLC

\* ---------------------------------------------------------------- bounds

\* Largest config.Total explored.
MaxTotal == 2
\* Largest worker count (spec.Client) explored.
MaxWorkers == 2
\* Last tick of the wall clock, in seconds since Schedule started.
MaxTime == 1
\* Sends an unbounded run (config.Total = 0) is followed for.
MaxUnboundedSends == 1

\* The workers that call Build and Do of one PostDel builder concurrently,
\* the Build calls followed, and the last reading of the nanosecond clock.
MaxCallers == 2
MaxBuilds == 4
MaxNanos == 1

\* The longest list of shares and the largest share randomPick is followed on.
MaxShareLen == 3
MaxShare == 2

\* The longest URL path, in segments, MaskedURL is followed on.
MaxSegments == 3

\* ---------------------------------------------------------------- inputs

Nil == "nil"
\* A nil RESTRequestBuilder, the absent Requester and the absent Do result.
NilBuilder ==
    [type |-> Nil, group |-> "", version |-> "", resource |-> "",
     namespace |-> "", name |-> "", keySpaceSize |-> 0, resourceVersion |-> ""]
NoRequester == [method |-> "", path |-> << >>]
NoOutcome == [bytes |-> 0, err |-> Nil, raw |-> Nil]

ModeWeightedRandom == "weighted-random"
ModeTimeSeries == "time-series"

\* config.Requests of the weighted-random profiles.
WeightedRequests ==
    << [shares |-> 1, variant |-> "quorumGet", group |-> "", version |-> "v1",
        resource |-> "pods", namespace |-> "default", name |-> "p",
        keySpaceSize |-> 0],
       [shares |-> 0, variant |-> "staleList", group |-> "", version |-> "v1",
        resource |-> "nodes", namespace |-> "", name |-> "",
        keySpaceSize |-> 0],
       [shares |-> 2, variant |-> "patch", group |-> "apps", version |-> "v1",
        resource |-> "deployments", namespace |-> "default", name |-> "d",
        keySpaceSize |-> 1] >>

\* config.Buckets of a time-series profile with increasing start times.  The
\* second request of the first bucket has a method the exact-request factory
\* does not support.
BucketsAscending ==
    << [startTime |-> 0,
        requests |-> << [method |-> "GET", group |-> "", version |-> "v1",
                         resource |-> "pods", namespace |-> "default",
                         name |-> "p1"],
                        [method |-> "TRACE", group |-> "", version |-> "v1",
                         resource |-> "pods", namespace |-> "default",
                         name |-> "p2"] >>],
       [startTime |-> 1,
        requests |-> << [method |-> "LIST", group |-> "", version |-> "v1",
                         resource |-> "configmaps", namespace |-> "",
                         name |-> ""] >>] >>

\* config.Buckets of a time-series profile whose second bucket has the
\* earlier start time.
BucketsDescending ==
    << [startTime |-> 1,
        requests |-> << [method |-> "GET", group |-> "", version |-> "v1",
                         resource |-> "pods", namespace |-> "default",
                         name |-> "p1"] >>],
       [startTime |-> 0,
        requests |-> << [method |-> "LIST", group |-> "", version |-> "v1",
                         resource |-> "nodes", namespace |-> "",
                         name |-> ""],
                        [method |-> "DELETE", group |-> "", version |-> "v1",
                         resource |-> "nodes", namespace |-> "",
                         name |-> "n1"] >>] >>

\* defaultOverrides without a "total" key (a nil map among them), and the
\* value of defaultOverrides["total"] otherwise: an int or something else.
NoOverrides == [total |-> [type |-> "absent", value |-> 0]]
IntTotal(n) == [total |-> [type |-> "int", value |-> n]]

\* A Validate that keeps the duration next to a total.
WeightedRandomConfigValidate_KeepDuration(c, defaultOverrides) ==
    IF c.total = 0 /\ c.duration = 0 /\ defaultOverrides.total.type = "int"
    THEN [c EXCEPT !.total = defaultOverrides.total.value]
    ELSE c

\* WeightedRandomConfig.Validate(defaultOverrides): the config afterwards (the
\* error returned is always nil).  The duration is cleared next to a total,
\* and then the default total, when it is an int, replaces a total of 0
\* that has no duration.
WeightedRandomConfigValidate(c, defaultOverrides) ==
    LET d == IF c.total > 0 /\ c.duration > 0 THEN [c EXCEPT !.duration = 0] ELSE c
    IN IF d.total = 0 /\ d.duration = 0 /\ defaultOverrides.total.type = "int"
       THEN [d EXCEPT !.total = defaultOverrides.total.value]
       ELSE d

\* WeightedRandomConfig.Validate(nil): with total and duration both set, the
\* duration is ignored (no default total is given here).
Validate(c) == WeightedRandomConfigValidate(c, NoOverrides)

\* The load profiles Schedule is run on: the validated weighted-random
\* configs of every total and duration, and the time-series profiles; each
\* with 1..MaxWorkers clients.
Profiles ==
    { Validate([mode |-> ModeWeightedRandom, total |-> t, duration |-> d,
                client |-> c, buckets |-> << >>]) :
        t \in 0..MaxTotal, d \in {0, 1}, c \in 1..MaxWorkers }
    \cup
    { [mode |-> ModeTimeSeries, total |-> 0, duration |-> 0, client |-> c,
       buckets |-> b] :
        c \in 1..MaxWorkers, b \in {BucketsAscending, BucketsDescending} }

\* What a request's Do can return: (bytes, err).
DoOutcomes ==
    { [bytes |-> 8, err |-> Nil],
      [bytes |-> 0, err |-> "error"],
      [bytes |-> 8, err |-> "http2-no-error"] }

\* ------------------------------------------------------ request builders

\* URL path of a request: api or apis/group, version, optional namespace.
URLPrefix(b) ==
    (IF b.group = "" THEN << "api", b.version >>
                     ELSE << "apis", b.group, b.version >>)
    \o (IF b.namespace # "" THEN << "namespaces", b.namespace >> ELSE << >>)

newRequestGetBuilder(src, resourceVersion) ==
    [type |-> "get", group |-> src.group, version |-> src.version,
     resource |-> src.resource, namespace |-> src.namespace,
     name |-> src.name, keySpaceSize |-> 0,
     resourceVersion |-> resourceVersion]

newRequestListBuilder(src, resourceVersion) ==
    [type |-> "list", group |-> src.group, version |-> src.version,
     resource |-> src.resource, namespace |-> src.namespace,
     name |-> "", keySpaceSize |-> 0,
     resourceVersion |-> resourceVersion]

newRequestPatchBuilder(src, resourceVersion) ==
    [type |-> "patch", group |-> src.group, version |-> src.version,
     resource |-> src.resource, namespace |-> src.namespace,
     name |-> src.name, keySpaceSize |-> src.keySpaceSize,
     resourceVersion |-> resourceVersion]

\* rand.Int(rand.Reader, big.NewInt(1000)): the draws of PostDel Build lie in
\* [0, DrawRange); deleteRatio is kept in thousandths, 1.0 being DrawRange.
DrawRange == 1000

\* The draws followed: the least, one in the middle and the greatest.
Draws == {0, 500, DrawRange - 1}

\* newRequestPostDelBuilder: a builder with a cache of its own, empty, and
\* its resource counter at zero.
newRequestPostDelBuilder(src, resourceVersion) ==
    [type |-> "postdel", group |-> src.group, version |-> src.version,
     resource |-> src.resource, namespace |-> src.namespace,
     resourceVersion |-> resourceVersion, deleteRatio |-> src.deleteRatio,
     cache |-> << >>, resourceCounter |-> 0]

newRequestWatchListBuilder(src) ==
    [type |-> "watchlist", group |-> src.group, version |-> src.version,
     resource |-> src.resource, namespace |-> src.namespace]

newRequestGetPodLogBuilder(src) ==
    [type |-> "podlog", namespace |-> src.namespace, name |-> src.name]

\* CreateRequestBuilder: the builder of a weighted request, NilBuilder for the
\* "unsupported request type" error of the default case.  The switch has no
\* case for the put variant.
CreateRequestBuilder(r) ==
    CASE r.variant = "staleList"  -> newRequestListBuilder(r, "0")
      [] r.variant = "quorumList" -> newRequestListBuilder(r, "")
      [] r.variant = "watchList"  -> newRequestWatchListBuilder(r)
      [] r.variant = "staleGet"   -> newRequestGetBuilder(r, "0")
      [] r.variant = "quorumGet"  -> newRequestGetBuilder(r, "")
      [] r.variant = "getPodLog"  -> newRequestGetPodLogBuilder(r)
      [] r.variant = "patch"      -> newRequestPatchBuilder(r, "")
      [] r.variant = "postDel"    -> newRequestPostDelBuilder(r, "")
      [] OTHER                    -> NilBuilder

\* GetPatchType: ok for the three patch types.
GetPatchType(patchType) == patchType \in {"json", "merge", "strategic-merge"}

\* CreateRequestBuilderFromExact: the builder of an exact request, NilBuilder for
\* the "unsupported method" and "invalid patch type" errors.  The RequestPatch
\* made of an exact PATCH has no KeySpaceSize: the builder's is 0.
CreateRequestBuilderFromExact(req) ==
    CASE req.method = "GET"  -> newRequestGetBuilder(req, "")
      [] req.method = "LIST" -> newRequestListBuilder(req, "")
      [] req.method = "PATCH" ->
           IF GetPatchType(req.patchType)
           THEN newRequestPatchBuilder(
                    [group |-> req.group, version |-> req.version,
                     resource |-> req.resource, namespace |-> req.namespace,
                     name |-> req.name, keySpaceSize |-> 0], "")
           ELSE NilBuilder
      [] req.method = "POST" ->
           newRequestPostDelBuilder(
               [group |-> req.group, version |-> req.version,
                resource |-> req.resource, namespace |-> req.namespace,
                deleteRatio |-> 0], "")
      [] req.method = "DELETE" ->
           newRequestPostDelBuilder(
               [group |-> req.group, version |-> req.version,
                resource |-> req.resource, namespace |-> req.namespace,
                deleteRatio |-> DrawRange], "")
      [] OTHER               -> NilBuilder

\* The random draws Build makes: the patch builder draws a suffix in
\* [0, keySpaceSize), the PostDel builder a number in [0, DrawRange).
BuildDraws(b) ==
    CASE b.type = "patch"   -> 0..(b.keySpaceSize - 1)
      [] b.type = "postdel" -> Draws
      [] OTHER              -> {0}

\* A Build that also deletes when the draw equals deleteRatio.
ShouldDelete_Inclusive(b, draw) == draw <= b.deleteRatio

\* PostDel Build: shouldDelete := float64(randomInt)/1000.0 < b.deleteRatio
ShouldDelete(b, draw) == draw < b.deleteRatio

\* A Build that names the object after the clock reading alone.
PostName_TimestampOnly(timestamp, counter) == ToString(timestamp)

\* PostDel Build: name := fmt.Sprintf("%d-%d", timestamp, counter)
PostName(timestamp, counter) == ToString(timestamp) \o "-" \o ToString(counter)

\* The PostDelDiscardRequester of either branch of PostDel Build.
PostDelRequester(b, operation, name) ==
    [method |-> operation,
     path |-> URLPrefix(b) \o (IF operation = "DELETE"
                                THEN << b.resource, name >> ELSE << b.resource >>),
     name |-> name, operation |-> operation]

\* Cache.Pop and Cache.Push: a LIFO; Pop fails on the empty cache.
PopOk(cache) == cache # << >>
PopName(cache) == cache[Len(cache)]
PopRest(cache) == SubSeq(cache, 1, Len(cache) - 1)
Push(cache, name) == Append(cache, name)

\* PostDel Build run from beginning to end on builder b, with the draw and the
\* clock reading it gets.
PostDelBuild(b, draw, timestamp) ==
    IF ShouldDelete(b, draw) /\ PopOk(b.cache)
    THEN PostDelRequester(b, "DELETE", PopName(b.cache))
    ELSE PostDelRequester(b, "POST", PostName(timestamp, b.resourceCounter + 1))

\* A Do that does not give the name of a failed DELETE back to the cache.
AfterDo_NoRestore(cache, req, ok) ==
    IF req.operation = "POST" /\ ok THEN Push(cache, req.name) ELSE cache

\* A Do that pushes the name of a POST whether or not the POST succeeded.
AfterDo_PushFailedPost(cache, req, ok) ==
    CASE req.operation = "POST"              -> Push(cache, req.name)
      [] req.operation = "DELETE" /\ ~ok     -> Push(cache, req.name)
      [] OTHER                               -> cache

\* A Do that pushes the name of a DELETE back whether or not it failed.
AfterDo_PushEveryDelete(cache, req, ok) ==
    CASE req.operation = "POST" /\ ok        -> Push(cache, req.name)
      [] req.operation = "DELETE"            -> Push(cache, req.name)
      [] OTHER                               -> cache

\* PostDelDiscardRequester.Do: the cache after the request has returned, ok
\* being err == nil.  A successful POST pushes its name, a failed DELETE
\* pushes the name it had popped back.
AfterDo(cache, req, ok) ==
    CASE req.operation = "POST" /\ ok        -> Push(cache, req.name)
      [] req.operation = "DELETE" /\ ~ok     -> Push(cache, req.name)
      [] OTHER                               -> cache

\* builder.Build(cli): the requester, its method and its URL path.
Build(b, draw) ==
    CASE b.type = "get" ->
           [method |-> "GET",
            path |-> URLPrefix(b) \o << b.resource, b.name >>]
      [] b.type = "list" ->
           [method |-> "LIST",
            path |-> URLPrefix(b) \o << b.resource >>]
      [] b.type = "patch" ->
           [method |-> "PATCH",
            path |-> URLPrefix(b)
                     \o << b.resource, b.name \o "-" \o ToString(draw) >>]
      [] b.type = "postdel" ->
           [method |-> PostDelBuild(b, draw, 0).method,
            path |-> PostDelBuild(b, draw, 0).path]

\* A MaskedURL that masks the URLs of DELETE only.
MaskedURL_DeleteOnly(reqr) ==
    IF reqr.method = "DELETE"
    THEN SubSeq(reqr.path, 1, Len(reqr.path) - 1) \o << ":name" >>
    ELSE reqr.path

\* BaseRequester.MaskedURL: for DELETE and PATCH the last path segment is
\* replaced by ":name"; other methods keep the URL.
MaskedURL(reqr) ==
    IF reqr.method = "DELETE" \/ reqr.method = "PATCH"
    THEN SubSeq(reqr.path, 1, Len(reqr.path) - 1) \o << ":name" >>
    ELSE reqr.path

\* A test that takes no error for NO_ERROR.
isHTTP2StreamNoError_Never(err) == FALSE

\* isHTTP2StreamNoError: the error is an HTTP/2 stream error with code NO_ERROR.
isHTTP2StreamNoError(err) == err = "http2-no-error"

\* ------------------------------------------------------------------ state

VARIABLES
    spec,                \* the LoadProfileSpec Schedule was called with
    now,                 \* wall clock, seconds since Schedule started
    callerDone,          \* the caller's ctx is cancelled
    ctxDone,             \* Schedule's ctx (WithCancel of the caller's) is done
    execErr,             \* execCtx.Err(): Nil, "canceled" or "deadline"
    ectxDone,            \* the executor's internal e.ctx is done
    once,                \* e.once: "fresh", "running" or "done"
    wgCount,             \* e.wg counter
    chClosed,            \* e.reqBuilderCh is closed
    mainPc,              \* position of the goroutine running Schedule
    stopRet,             \* where the Stop call in progress returns to
    spawned,             \* workers started so far
    runPc,               \* position of the goroutine running exec.Run
    runErr,              \* what Run returns: Nil, "ctx" (ctx.Err()), "ectx" (e.ctx.Err())
    sum,                 \* Run's counter (weighted-random)
    bi, ri,              \* Run's bucket and request index (time-series)
    startTime,           \* Run's startTime (time-series)
    workers,             \* the worker goroutines: a bag of their states
    errors,              \* respMetric: bag of the (method, URL) of the failures
    latencies,           \* respMetric: bag of the (method, URL) of the latencies
    totalReceivedBytes,  \* respMetric: bytes observed
    result,              \* the Result Schedule returned
    panicked,            \* a goroutine panicked: the process is gone
    hist,                \* history of the run, read by the properties only
    pdBuilder,           \* the requestPostDelBuilder the workers share
    pdCalls,             \* each worker's position in Build and Do of that builder
    nanos,               \* time.Now().UnixNano()
    pdHist,              \* history of the builder's calls, read by the properties only
    fnIn,                \* the arguments of the call of a function followed on its own
    fnOut,               \* what that call returned, NotReturned before it has
    specs,               \* executeSpecs: the specs of the profile
    specIdx,             \* executeSpecs: the index of the spec Schedule is running
    results,             \* executeSpecs: the length of results
    staleRuns,           \* Run goroutines of earlier executors that can still send
    runnerHist           \* history of executeSpecs, read by the properties only

vars == << spec, now, callerDone, ctxDone, execErr, ectxDone, once, wgCount,
           chClosed, mainPc, stopRet, spawned, runPc, runErr, sum, bi, ri, startTime,
           workers, errors, latencies, totalReceivedBytes,
           result, panicked, hist, pdBuilder, pdCalls, nanos, pdHist,
           fnIn, fnOut, specs, specIdx, results, staleRuns, runnerHist >>

ctxVars == << callerDone, ctxDone, execErr, ectxDone >>
stopVars == << once, wgCount, chClosed >>
mainVars == << mainPc, stopRet, spawned, result >>
runVars == << runPc, runErr, sum, bi, ri, startTime >>
metricVars == << errors, latencies, totalReceivedBytes >>
postDelVars == << pdBuilder, pdCalls, nanos, pdHist >>
callVars == << fnIn, fnOut >>
runnerVars == << specs, specIdx, results, staleRuns, runnerHist >>
auxVars == << postDelVars, callVars, runnerVars >>
schedVars == << spec, now, ctxVars, stopVars, mainVars, runVars, workers, metricVars,
                panicked, hist >>

\* A worker goroutine: its position, the builder it received, the requester
\* it built and what req.Do returned.  The workers differ in nothing but the
\* workerID they log, so the pool is the bag of their states.
Worker(pc, builder, req, out) ==
    [pc |-> pc, builder |-> builder, req |-> req, out |-> out]

\* The pool with one worker in state old moved to state new.
Move(old, new) == (workers (-) SetToBag({old})) (+) SetToBag({new})

\* The number of workers at position pc.
RECURSIVE Count(_, _)
Count(S, pc) ==
    IF S = {} THEN 0
    ELSE LET ws == CHOOSE x \in S : TRUE
         IN (IF ws.pc = pc THEN workers[ws] ELSE 0) + Count(S \ {ws}, pc)
At(pc) == Count(BagToSet(workers), pc)

\* The pool with every worker at position from moved to position to.
RECURSIVE MoveAll(_, _, _)
MoveAll(B, from, to) ==
    IF \E ws \in BagToSet(B) : ws.pc = from
    THEN LET ws == CHOOSE x \in BagToSet(B) : x.pc = from
         IN MoveAll((B (-) SetToBag({ws})) (+) SetToBag({[ws EXCEPT !.pc = to]}),
                    from, to)
    ELSE B

\* ----------------------------------------------------------- executors

\* e.buckets: config.Buckets of the profile.
Buckets == spec.buckets

\* The requests of the first n buckets.
RECURSIVE SumRequests(_)
SumRequests(n) ==
    IF n = 0 THEN 0 ELSE SumRequests(n - 1) + Len(Buckets[n].requests)

\* WeightedRandomExecutor.Metadata and TimeSeriesExecutor.Metadata.
WeightedRandomMetadata(s) ==
    [ExpectedTotal |-> s.total, ExpectedDuration |-> s.duration]

TimeSeriesMetadata ==
    [ExpectedTotal |-> SumRequests(Len(Buckets)),
     ExpectedDuration |-> IF Len(Buckets) > 0
                          THEN Buckets[Len(Buckets)].startTime ELSE 0]

\* exec.Metadata() of the executor CreateExecutor made for the profile.
Metadata(s) ==
    IF s.mode = ModeWeightedRandom THEN WeightedRandomMetadata(s)
    ELSE TimeSeriesMetadata

\* Executors that all have a rate limiter.
GetRateLimiter_Always(s) == "limiter"

\* GetRateLimiter: the token bucket in weighted-random mode, nil in time-series.
GetRateLimiter(s) == IF s.mode = ModeWeightedRandom THEN "limiter" ELSE Nil

\* NewWeightedRandomExecutor: the parallel vectors shares and reqBuilders.
shares == [i \in 1..Len(WeightedRequests) |-> WeightedRequests[i].shares]
reqBuilders ==
    [i \in 1..Len(WeightedRequests) |-> CreateRequestBuilder(WeightedRequests[i])]

RECURSIVE SumShares(_)
SumShares(n) == IF n = 0 THEN 0 ELSE SumShares(n - 1) + shares[n]

\* randomPick: walk the shares, subtracting, until the draw falls below one.
RECURSIVE pickFrom(_, _)
pickFrom(i, rnd) ==
    IF rnd < shares[i] THEN reqBuilders[i] ELSE pickFrom(i + 1, rnd - shares[i])

randomPick(rnd) == pickFrom(1, rnd)

\* createBuilderForExactRequest: nil when the factory fails.
createBuilderForExactRequest(req) == CreateRequestBuilderFromExact(req)

\* A loop test that takes a total of 0 for a total that is reached.
LoopDone_ZeroIsReached(total, s) == s >= total

\* A loop test that lets one builder too many through.
LoopDone_OneMore(total, s) == total > 0 /\ s > total

\* The loop test of WeightedRandomExecutor.Run.
LoopDone(total, s) == total > 0 /\ s >= total

\* An unbounded run (total = 0) is followed for MaxUnboundedSends sends.
MaySend ==
    spec.mode = ModeWeightedRandom /\ spec.total = 0 => sum < MaxUnboundedSends

\* A dispatch loop that offers the requests of a bucket in no fixed order.
Offered_AnyOfBucket ==
    IF spec.mode = ModeWeightedRandom
    THEN { randomPick(rnd) : rnd \in 0..(SumShares(Len(shares)) - 1) }
    ELSE { b \in { createBuilderForExactRequest(Buckets[bi].requests[r]) :
                      r \in 1..Len(Buckets[bi].requests) } : b.type # Nil }

\* The builders Run can offer on the channel at its current position.
Offered ==
    IF spec.mode = ModeWeightedRandom
    THEN { randomPick(rnd) : rnd \in 0..(SumShares(Len(shares)) - 1) }
    ELSE { createBuilderForExactRequest(Buckets[bi].requests[ri]) }

\* TimeSeriesExecutor.Run from request r of bucket b on: the next request
\* whose builder is not nil is sent, else the next bucket waits for its
\* timer, else Run returns nil.
RECURSIVE Dispatch(_, _)
Dispatch(b, r) ==
    IF r > Len(Buckets[b].requests)
    THEN IF b < Len(Buckets)
         THEN [pc |-> "timer", bi |-> b + 1, ri |-> 1]
         ELSE [pc |-> "returning", bi |-> b, ri |-> r]
    ELSE IF createBuilderForExactRequest(Buckets[b].requests[r]).type = Nil
         THEN Dispatch(b, r + 1)
         ELSE [pc |-> "select", bi |-> b, ri |-> r]

\* A Run that does not count the builder it has sent.
AfterSend_NotCounted ==
    IF spec.mode = ModeWeightedRandom
    THEN /\ runPc' = IF LoopDone(spec.total, sum) THEN "returning" ELSE "select"
         /\ runErr' = Nil
         /\ UNCHANGED << sum, bi, ri, startTime >>
    ELSE /\ runPc' = Dispatch(bi, ri + 1).pc
         /\ bi' = Dispatch(bi, ri + 1).bi
         /\ ri' = Dispatch(bi, ri + 1).ri
         /\ runErr' = Nil
         /\ UNCHANGED << sum, startTime >>

\* Run after a send succeeded: sum++ and the loop test (weighted-random),
\* the next request (time-series).
AfterSend ==
    IF spec.mode = ModeWeightedRandom
    THEN /\ sum' = sum + 1
         /\ runPc' = IF LoopDone(spec.total, sum + 1) THEN "returning" ELSE "select"
         /\ runErr' = Nil
         /\ UNCHANGED << bi, ri, startTime >>
    ELSE /\ runPc' = Dispatch(bi, ri + 1).pc
         /\ bi' = Dispatch(bi, ri + 1).bi
         /\ ri' = Dispatch(bi, ri + 1).ri
         /\ runErr' = Nil
         /\ UNCHANGED << sum, startTime >>

\* A bucket timer that does not wait.
TimerDue_AtOnce(t) == TRUE

\* The bucket timer of time-series Run has fired at time t.
TimerDue(t) == t - startTime >= Buckets[bi].startTime

\* A select without the Done cases: a parked Run sleeps through a cancellation.
WakeRunPc_Asleep == runPc

\* A context Run selects on becomes done: a parked Run is woken on that case
\* and will return that context's error.
RunParked == runPc \in {"parked", "timerParked"}

WakeRunPc == IF RunParked THEN "woken" ELSE runPc
WakeRunErr(which) == IF RunParked THEN which ELSE runErr

\* Schedule's ctx becomes done: a worker parked in limiter.Wait(ctx) is woken.
WakeLimiter == MoveAll(workers, "limiterParked", "exiting")

\* The channel is closed: the parked receivers are woken.
WakeReceivers == MoveAll(workers, "recvParked", "range")

\* ----------------------------------------------------- response metrics

ObserveLatency(method, url) == latencies' = latencies (+) SetToBag({<< method, url >>})
ObserveFailure(method, url) == errors' = errors (+) SetToBag({<< method, url >>})
ObserveReceivedBytes(bytes) == totalReceivedBytes' = totalReceivedBytes + bytes
Gather ==
    [errors |-> errors, latencies |-> latencies,
     totalReceivedBytes |-> totalReceivedBytes]

\* ------------------------------------------------------------------ Init

NoResult == [stats |-> [errors |-> EmptyBag, latencies |-> EmptyBag,
                        totalReceivedBytes |-> 0],
             total |-> 0]

\* The scheduling state after NewWeightedRandomRequests or
\* NewTimeSeriesExecutor and before Schedule has started a goroutine.
SchedStart ==
    /\ now = 0
    /\ callerDone = FALSE /\ ctxDone = FALSE /\ execErr = Nil /\ ectxDone = FALSE
    /\ once = "fresh" /\ wgCount = 0 /\ chClosed = FALSE
    /\ mainPc = "spawn" /\ stopRet = Nil /\ spawned = 0 /\ result = NoResult
    /\ runPc = "none" /\ runErr = Nil /\ sum = 0 /\ bi = 1 /\ ri = 1 /\ startTime = 0
    /\ workers = EmptyBag
    /\ errors = EmptyBag /\ latencies = EmptyBag /\ totalReceivedBytes = 0
    /\ panicked = FALSE
    /\ hist = [sent |-> 0, closes |-> 0, stopCalls |-> 0, doStarted |-> 0,
               doBytes |-> 0, bytesObserved |-> 0]

\* A worker that is in neither Build nor Do of the shared PostDel builder.
NoCall == [pc |-> "idle", counter |-> 0, req |-> NoRequester]

NoPdHist == [builds |-> 0, draw |-> 0, posts |-> 0, posted |-> {},
             succPost |-> 0, succDel |-> 0, failedDel |-> 0,
             created |-> {}, deleted |-> {}]

\* No PostDel builder is followed on its own.
PostDelIdle ==
    /\ pdBuilder = NilBuilder
    /\ pdCalls = EmptyBag
    /\ nanos = 0
    /\ pdHist = NoPdHist

\* No function is followed on its own.
NotReturned == [returned |-> FALSE]
CallIdle == fnIn = Nil /\ fnOut = NotReturned

NoRunnerHist == [started |-> << >>, returned |-> << >>, sent |-> << >>]

\* Schedule is called on one spec, outside executeSpecs.
RunnerIdle ==
    /\ specs = << >>
    /\ specIdx = 0
    /\ results = 0
    /\ staleRuns = 0
    /\ runnerHist = NoRunnerHist

Init ==
    /\ spec \in Profiles
    /\ SchedStart
    /\ PostDelIdle
    /\ CallIdle
    /\ RunnerIdle

\* The process runs until a goroutine panics.
Alive == ~panicked

\* ---------------------------------------------------------- environment

\* The caller cancels the ctx it gave Schedule: Schedule's ctx, derived from
\* it, is done, and a worker parked in limiter.Wait(ctx) is woken.  execCtx,
\* a child of Schedule's ctx, is cancelled next, by PropagateCancel.  (A
\* cancellation after Schedule's own cancel() changes nothing and is left out.)
CallerCancel ==
    /\ Alive
    /\ ~callerDone
    /\ ~ctxDone
    /\ callerDone' = TRUE
    /\ ctxDone' = TRUE
    /\ workers' = WakeLimiter
    /\ UNCHANGED << auxVars, spec, now, execErr, ectxDone, stopVars, mainVars, runVars,
                    metricVars, panicked, hist >>

\* The cancellation of Schedule's ctx reaches its child execCtx: a Run parked
\* in a select is woken on <-ctx.Done().
PropagateCancel ==
    /\ Alive
    /\ callerDone
    /\ execErr = Nil
    /\ execErr' = "canceled"
    /\ runPc' = WakeRunPc
    /\ runErr' = WakeRunErr("ctx")
    /\ UNCHANGED << auxVars, spec, now, callerDone, ctxDone, ectxDone, stopVars, mainVars,
                    sum, bi, ri, startTime, workers, metricVars, panicked, hist >>

\* The program reads the clock in a time-series Run that has buckets left:
\* time.Until(targetTime).  Other ticks change nothing it can see.
ClockRead ==
    /\ spec.mode = ModeTimeSeries
    /\ runPc \in {"none", "start", "timer", "timerParked", "select", "parked"}

\* A second of wall-clock time passes; a Run parked on a bucket timer that
\* is now due goes on to dispatch the bucket.
Tick ==
    /\ Alive
    /\ now < MaxTime
    /\ ClockRead
    /\ now' = now + 1
    /\ IF runPc = "timerParked" /\ TimerDue(now + 1)
       THEN /\ runPc' = Dispatch(bi, 1).pc
            /\ bi' = Dispatch(bi, 1).bi
            /\ ri' = Dispatch(bi, 1).ri
       ELSE UNCHANGED << runPc, bi, ri >>
    /\ UNCHANGED << auxVars, spec, ctxVars, stopVars, mainVars, runErr, sum, startTime,
                    workers, metricVars, panicked, hist >>

\* GetExecutionContext: with config.Duration > 0 execCtx carries a deadline
\* of Duration seconds; the deadline passes.
DeadlineExceeded ==
    /\ Alive
    /\ spec.mode = ModeWeightedRandom
    /\ spec.duration > 0
    /\ execErr = Nil
    /\ execErr' = "deadline"
    /\ runPc' = WakeRunPc
    /\ runErr' = WakeRunErr("ctx")
    /\ UNCHANGED << auxVars, spec, now, callerDone, ctxDone, ectxDone, stopVars, mainVars,
                    sum, bi, ri, startTime, workers, metricVars, panicked, hist >>

\* ------------------------------------------------------------- Schedule

\* A pool of spec.Conns workers whatever spec.Client is.
Clients_Conns(s) == s.conns

\* clients := spec.Client; if clients == 0 { clients = spec.Conns }
Clients(s) == IF s.client = 0 THEN s.conns ELSE s.client

\* go func(workerID, cli) {...}: one more worker is started.
SpawnWorker ==
    /\ Alive
    /\ mainPc = "spawn"
    /\ spawned < Clients(spec)
    /\ spawned' = spawned + 1
    /\ workers' = workers (+) SetToBag({Worker("range", NilBuilder, NoRequester, NoOutcome)})
    /\ UNCHANGED << auxVars, spec, now, ctxVars, stopVars, mainPc, stopRet, result, runVars,
                    metricVars, panicked, hist >>

\* An executor started before the worker pool.
WorkersSpawned_NotYet == TRUE

\* The loop starting the workers has run to its end: clients goroutines.
WorkersSpawned == spawned = Clients(spec)

\* go func() { exec.Run(execCtx); cancel() }(), after the workers.
StartExecutor ==
    /\ Alive
    /\ mainPc = "spawn"
    /\ WorkersSpawned
    /\ mainPc' = "waitCtx"
    /\ runPc' = "start"
    /\ UNCHANGED << auxVars, spec, now, ctxVars, stopVars, stopRet, spawned, result, runErr,
                    sum, bi, ri, startTime, workers, metricVars, panicked, hist >>

\* <-ctx.Done()
WaitCtxDone ==
    /\ Alive
    /\ mainPc = "waitCtx"
    /\ ctxDone
    /\ mainPc' = "stop"
    /\ UNCHANGED << auxVars, spec, now, ctxVars, stopVars, stopRet, spawned, result, runVars,
                    workers, metricVars, panicked, hist >>

\* A Stop that runs its body on every call.
OnceFresh_EveryCall == TRUE

\* e.once.Do(f) runs f on the first call only.
OnceFresh == once = "fresh"

\* exec.Stop(), called at "stop" and again by the deferred call: behind the
\* once-guard, e.cancel(); a call that finds the guard used returns.
Stop ==
    /\ Alive
    /\ mainPc \in {"stop", "deferStop"}
    /\ hist' = [hist EXCEPT !.stopCalls = @ + 1]
    /\ IF OnceFresh
       THEN /\ once' = "running"
            /\ stopRet' = (IF mainPc = "stop" THEN "join" ELSE "returned")
            /\ mainPc' = "stopWait"
            /\ ectxDone' = TRUE
            /\ runPc' = WakeRunPc
            /\ runErr' = WakeRunErr("ectx")
       ELSE /\ mainPc' = (IF mainPc = "stop" THEN "join" ELSE "returned")
            /\ UNCHANGED << once, stopRet, ectxDone, runPc, runErr >>
    /\ UNCHANGED << auxVars, spec, now, callerDone, ctxDone, execErr, wgCount, chClosed,
                    spawned, result, sum, bi, ri, startTime, workers,
                    metricVars, panicked >>

\* Stop: e.wg.Wait()
StopWait ==
    /\ Alive
    /\ mainPc = "stopWait"
    /\ wgCount = 0
    /\ mainPc' = "stopClose"
    /\ UNCHANGED << auxVars, spec, now, ctxVars, stopVars, stopRet, spawned, result, runVars,
                    workers, metricVars, panicked, hist >>

\* Stop: close(e.reqBuilderCh); the once-guard is used when the call returns.
\* Closing a closed channel panics, and so does a sender parked on it.
StopClose ==
    /\ Alive
    /\ mainPc = "stopClose"
    /\ chClosed' = TRUE
    /\ once' = "done"
    /\ mainPc' = stopRet
    /\ stopRet' = Nil
    /\ workers' = WakeReceivers
    /\ panicked' = (chClosed \/ runPc = "parked")
    /\ hist' = [hist EXCEPT !.closes = @ + 1]
    /\ UNCHANGED << auxVars, spec, now, ctxVars, wgCount, spawned, result, runVars,
                    metricVars >>

\* A Schedule that gathers the result without joining the workers.
AllWorkersDone_NoJoin == TRUE

\* wg.Wait(): every worker started has run its deferred wg.Done().
AllWorkersDone == At("exited") = spawned

\* wg.Wait() for the workers, respMetric.Gather() and the Result.
JoinWorkers ==
    /\ Alive
    /\ mainPc = "join"
    /\ AllWorkersDone
    /\ result' = [stats |-> Gather, total |-> Metadata(spec).ExpectedTotal]
    /\ mainPc' = "deferStop"
    /\ UNCHANGED << auxVars, spec, now, ctxVars, stopVars, stopRet, spawned, runVars,
                    workers, metricVars, panicked, hist >>

\* ------------------------------------------------- the executor goroutine

\* Run: e.wg.Add(1), startTime := time.Now(), up to the first select.
RunStart ==
    /\ Alive
    /\ runPc = "start"
    /\ wgCount' = wgCount + 1
    /\ IF spec.mode = ModeWeightedRandom
       THEN /\ runPc' = IF LoopDone(spec.total, sum) THEN "returning" ELSE "select"
            /\ UNCHANGED << bi, startTime >>
       ELSE /\ runPc' = IF Len(Buckets) = 0 THEN "returning" ELSE "timer"
            /\ bi' = 1
            /\ startTime' = now
    /\ UNCHANGED << auxVars, spec, now, ctxVars, once, chClosed, mainVars, runErr, sum, ri,
                    workers, metricVars, panicked, hist >>

\* A builder passes from Run to the worker in state w over the unbuffered
\* channel.
Handoff(w) ==
    /\ MaySend
    /\ \E builder \in Offered :
          workers' = Move(w, [w EXCEPT
                         !.pc = IF GetRateLimiter(spec) # Nil THEN "limiter" ELSE "build",
                         !.builder = builder])
    /\ AfterSend
    /\ hist' = [hist EXCEPT !.sent = @ + 1]
    /\ UNCHANGED << auxVars, spec, now, ctxVars, stopVars, mainVars, metricVars, panicked >>

\* select, case e.reqBuilderCh <- builder: a receiver is parked on the channel.
RunSend(w) ==
    /\ Alive
    /\ runPc = "select"
    /\ ~chClosed
    /\ w.pc = "recvParked"
    /\ Handoff(w)

\* select, case e.reqBuilderCh <- builder on a closed channel: panic.
RunSendOnClosed ==
    /\ Alive
    /\ runPc = "select"
    /\ chClosed
    /\ panicked' = TRUE
    /\ UNCHANGED << auxVars, spec, now, ctxVars, stopVars, mainVars, runVars, workers,
                    metricVars, hist >>

\* select, case <-ctx.Done(): return ctx.Err()
RunCtxDone ==
    /\ Alive
    /\ runPc \in {"select", "timer"}
    /\ execErr # Nil
    /\ runPc' = "returning"
    /\ runErr' = "ctx"
    /\ UNCHANGED << auxVars, spec, now, ctxVars, stopVars, mainVars, sum, bi, ri, startTime,
                    workers, metricVars, panicked, hist >>

\* select, case <-e.ctx.Done(): return e.ctx.Err()
RunECtxDone ==
    /\ Alive
    /\ runPc \in {"select", "timer"}
    /\ ectxDone
    /\ runPc' = "returning"
    /\ runErr' = "ectx"
    /\ UNCHANGED << auxVars, spec, now, ctxVars, stopVars, mainVars, sum, bi, ri, startTime,
                    workers, metricVars, panicked, hist >>

\* select with no case ready: Run blocks.
RunPark ==
    /\ Alive
    /\ execErr = Nil
    /\ ~ectxDone
    /\ \/ /\ runPc = "select"
          /\ ~chClosed
          /\ ~(MaySend /\ At("recvParked") > 0)
          /\ runPc' = "parked"
       \/ /\ runPc = "timer"
          /\ ~TimerDue(now)
          /\ runPc' = "timerParked"
    /\ UNCHANGED << auxVars, spec, now, ctxVars, stopVars, mainVars, runErr, sum, bi, ri,
                    startTime, workers, metricVars, panicked, hist >>

\* select, case <-time.After(time.Until(targetTime)) with the target reached.
RunTimerFired ==
    /\ Alive
    /\ runPc = "timer"
    /\ TimerDue(now)
    /\ runPc' = Dispatch(bi, 1).pc
    /\ bi' = Dispatch(bi, 1).bi
    /\ ri' = Dispatch(bi, 1).ri
    /\ UNCHANGED << auxVars, spec, now, ctxVars, stopVars, mainVars, runErr, sum, startTime,
                    workers, metricVars, panicked, hist >>

\* Run returns; the deferred e.wg.Done() runs.
RunReturn ==
    /\ Alive
    /\ runPc \in {"returning", "woken"}
    /\ runPc' = "returned"
    /\ wgCount' = wgCount - 1
    /\ UNCHANGED << auxVars, spec, now, ctxVars, once, chClosed, mainVars, runErr, sum, bi,
                    ri, startTime, workers, metricVars, panicked, hist >>

\* cancel() after Run: Schedule's ctx, and execCtx with it, are done.
SignalCompletion ==
    /\ Alive
    /\ runPc = "returned"
    /\ runPc' = "finished"
    /\ ctxDone' = TRUE
    /\ execErr' = IF execErr = Nil THEN "canceled" ELSE execErr
    /\ workers' = WakeLimiter
    /\ UNCHANGED << auxVars, spec, now, callerDone, ectxDone, stopVars, mainVars, runErr,
                    sum, bi, ri, startTime, metricVars,
                    panicked, hist >>

\* ---------------------------------------------------------------- workers

\* The worker leaves its goroutine: the deferred wg.Done().
WorkerExit(w) ==
    workers' = Move(w, Worker("exited", NilBuilder, NoRequester, NoOutcome))

\* for builder := range reqBuilderCh: take the builder of a parked sender,
\* leave the loop on a closed channel, block otherwise.
WorkerReceive(w) ==
    /\ Alive
    /\ w.pc = "range"
    /\ IF chClosed
       THEN /\ WorkerExit(w)
            /\ UNCHANGED << auxVars, spec, now, ctxVars, stopVars, mainVars, runVars,
                            metricVars, panicked, hist >>
       ELSE IF runPc = "parked" /\ MaySend
       THEN Handoff(w)
       ELSE /\ workers' = Move(w, [w EXCEPT !.pc = "recvParked"])
            /\ UNCHANGED << auxVars, spec, now, ctxVars, stopVars, mainVars, runVars,
                            metricVars, panicked, hist >>

\* A worker that goes on to build the request when the limiter has failed.
WorkerLimiterWait_BuildAnyway(w) ==
    /\ Alive
    /\ w.pc = "limiter"
    /\ \E granted \in (IF ctxDone THEN {TRUE} ELSE BOOLEAN) :
          workers' = Move(w, [w EXCEPT
                         !.pc = IF granted THEN "build" ELSE "limiterParked"])
    /\ UNCHANGED << auxVars, spec, now, ctxVars, stopVars, mainVars, runVars, metricVars,
                    panicked, hist >>

\* limiter.Wait(ctx): an error when ctx is done, and the worker returns;
\* else the token is granted at once or the worker blocks until it is, or
\* until ctx is done.
WorkerLimiterWait(w) ==
    /\ Alive
    /\ w.pc = "limiter"
    /\ IF ctxDone
       THEN WorkerExit(w)
       ELSE \E granted \in BOOLEAN :
               workers' = Move(w, [w EXCEPT
                              !.pc = IF granted THEN "build" ELSE "limiterParked"])
    /\ UNCHANGED << auxVars, spec, now, ctxVars, stopVars, mainVars, runVars, metricVars,
                    panicked, hist >>

\* limiter.Wait(ctx) returns nil: the token's delay has passed.
WorkerLimiterGranted(w) ==
    /\ Alive
    /\ w.pc = "limiterParked"
    /\ workers' = Move(w, [w EXCEPT !.pc = "build"])
    /\ UNCHANGED << auxVars, spec, now, ctxVars, stopVars, mainVars, runVars, metricVars,
                    panicked, hist >>

\* limiter.Wait(ctx) returned ctx.Err() to a worker it had blocked: return.
WorkerLimiterFailed(w) ==
    /\ Alive
    /\ w.pc = "exiting"
    /\ WorkerExit(w)
    /\ UNCHANGED << auxVars, spec, now, ctxVars, stopVars, mainVars, runVars, metricVars,
                    panicked, hist >>

\* req := builder.Build(cli); req.Timeout(defaultTimeout); req.Do is started
\* on context.Background().
WorkerBuild(w) ==
    /\ Alive
    /\ w.pc = "build"
    /\ \E draw \in BuildDraws(w.builder) :
          workers' = Move(w, [w EXCEPT !.pc = "do",
                                       !.req = Build(w.builder, draw),
                                       !.builder = NilBuilder])
    /\ hist' = [hist EXCEPT !.doStarted = @ + 1]
    /\ UNCHANGED << auxVars, spec, now, ctxVars, stopVars, mainVars, runVars, metricVars,
                    panicked >>

\* A worker that observes the received bytes of successful requests only.
WorkerDoReturn_BytesOnSuccess(w) ==
    /\ Alive
    /\ w.pc = "do"
    /\ \E out \in DoOutcomes :
          LET err == IF out.err # Nil /\ isHTTP2StreamNoError(out.err)
                     THEN Nil ELSE out.err
          IN /\ workers' = Move(w, [w EXCEPT !.pc = "observe",
                                   !.out = [bytes |-> out.bytes, err |-> err,
                                            raw |-> out.err]])
             /\ IF err = Nil
                THEN /\ ObserveReceivedBytes(out.bytes)
                     /\ hist' = [hist EXCEPT !.doBytes = @ + out.bytes,
                                             !.bytesObserved = @ + 1]
                ELSE /\ UNCHANGED totalReceivedBytes
                     /\ hist' = [hist EXCEPT !.doBytes = @ + out.bytes]
    /\ UNCHANGED << auxVars, spec, now, ctxVars, stopVars, mainVars, runVars, errors,
                    latencies, panicked >>

\* req.Do returns (bytes, err), whatever has become of Schedule's ctx;
\* NO_ERROR is marked nil; respMetric.ObserveReceivedBytes(bytes).
WorkerDoReturn(w) ==
    /\ Alive
    /\ w.pc = "do"
    /\ \E out \in DoOutcomes :
          /\ workers' = Move(w, [w EXCEPT
                            !.pc = "observe",
                            !.out = [bytes |-> out.bytes,
                                     err |-> IF out.err # Nil /\ isHTTP2StreamNoError(out.err)
                                             THEN Nil ELSE out.err,
                                     raw |-> out.err]])
          /\ ObserveReceivedBytes(out.bytes)
          /\ hist' = [hist EXCEPT !.doBytes = @ + out.bytes,
                                  !.bytesObserved = @ + 1]
    /\ UNCHANGED << auxVars, spec, now, ctxVars, stopVars, mainVars, runVars, errors,
                    latencies, panicked >>

\* A worker that leaves its goroutine after a failed request.
WorkerObserve_ExitOnFailure(w) ==
    /\ Alive
    /\ w.pc = "observe"
    /\ IF w.out.err # Nil
       THEN /\ ObserveFailure(w.req.method, MaskedURL(w.req))
            /\ UNCHANGED latencies
            /\ workers' = Move(w, Worker("exited", NilBuilder, NoRequester, NoOutcome))
       ELSE /\ ObserveLatency(w.req.method, MaskedURL(w.req))
            /\ UNCHANGED errors
            /\ workers' = Move(w, Worker("range", NilBuilder, NoRequester, NoOutcome))
    /\ UNCHANGED << auxVars, spec, now, ctxVars, stopVars, mainVars, runVars,
                    totalReceivedBytes, panicked, hist >>

\* ObserveFailure on an error, ObserveLatency otherwise, under the method and
\* masked URL of the request; then the next iteration of the range loop.
WorkerObserve(w) ==
    /\ Alive
    /\ w.pc = "observe"
    /\ IF w.out.err # Nil
       THEN /\ ObserveFailure(w.req.method, MaskedURL(w.req))
            /\ UNCHANGED latencies
       ELSE /\ ObserveLatency(w.req.method, MaskedURL(w.req))
            /\ UNCHANGED errors
    /\ workers' = Move(w, Worker("range", NilBuilder, NoRequester, NoOutcome))
    /\ UNCHANGED << auxVars, spec, now, ctxVars, stopVars, mainVars, runVars,
                    totalReceivedBytes, panicked, hist >>

\* ------------------------------------------------------------------ Next

Next ==
    \/ CallerCancel
    \/ PropagateCancel
    \/ Tick
    \/ DeadlineExceeded
    \/ SpawnWorker
    \/ StartExecutor
    \/ WaitCtxDone
    \/ Stop
    \/ StopWait
    \/ StopClose
    \/ JoinWorkers
    \/ RunStart
    \/ \E w \in BagToSet(workers) : RunSend(w)
    \/ RunSendOnClosed
    \/ RunCtxDone
    \/ RunECtxDone
    \/ RunPark
    \/ RunTimerFired
    \/ RunReturn
    \/ SignalCompletion
    \/ \E w \in BagToSet(workers) : WorkerReceive(w)
    \/ \E w \in BagToSet(workers) : WorkerLimiterWait(w)
    \/ \E w \in BagToSet(workers) : WorkerLimiterGranted(w)
    \/ \E w \in BagToSet(workers) : WorkerLimiterFailed(w)
    \/ \E w \in BagToSet(workers) : WorkerBuild(w)
    \/ \E w \in BagToSet(workers) : WorkerDoReturn(w)
    \/ \E w \in BagToSet(workers) : WorkerObserve(w)

Spec == Init /\ [][Next]_vars

\* Every step but the caller's cancellation: the goroutines' steps, which
\* the Go scheduler keeps taking while one of them can run, the requests'
\* Do returning, the clock and the timers.
Progress ==
    \/ PropagateCancel \/ Tick \/ DeadlineExceeded
    \/ SpawnWorker \/ StartExecutor \/ WaitCtxDone \/ Stop \/ StopWait
    \/ StopClose \/ JoinWorkers
    \/ RunStart \/ (\E w \in BagToSet(workers) : RunSend(w)) \/ RunSendOnClosed
    \/ RunCtxDone \/ RunECtxDone \/ RunPark \/ RunTimerFired \/ RunReturn
    \/ SignalCompletion
    \/ \E w \in BagToSet(workers) :
          \/ WorkerReceive(w) \/ WorkerLimiterWait(w) \/ WorkerLimiterGranted(w)
          \/ WorkerLimiterFailed(w) \/ WorkerBuild(w) \/ WorkerDoReturn(w)
          \/ WorkerObserve(w)

FairSpec == Spec /\ WF_vars(Progress)

\* ------------------------------------------- one PostDel builder, shared

\* The RequestPostDel of the weighted requests followed: deleteRatio 0, a
\* half, and the 1.0 CreateRequestBuilderFromExact gives an exact DELETE.
PostDelRequests ==
    { [group |-> "", version |-> "v1", resource |-> "configmaps",
       namespace |-> "default", deleteRatio |-> r] : r \in {0, 500, DrawRange} }

\* One worker of the bag pdCalls moves from call state c to call state d.
PdMove(c, d) == (pdCalls (-) SetToBag({c})) (+) SetToBag({d})

\* The calls under way, a worker at its loop being at NoCall.
Calls == BagToSet(pdCalls)

\* The scheduler at rest, one PostDel builder just constructed, and the
\* workers about to call its Build.
PostDelInit ==
    /\ spec = Validate([mode |-> ModeWeightedRandom, total |-> MaxBuilds, duration |-> 0,
                        client |-> MaxCallers, buckets |-> << >>])
    /\ SchedStart
    /\ pdBuilder \in { newRequestPostDelBuilder(src, "") : src \in PostDelRequests }
    /\ pdCalls = [c \in {NoCall} |-> MaxCallers]
    /\ nanos = 0
    /\ pdHist = NoPdHist
    /\ CallIdle
    /\ RunnerIdle

\* Build, up to the decision: the draw, shouldDelete and, when a delete is
\* chosen, cache.Pop().  A successful Pop ends Build with a DELETE requester
\* of the popped name; otherwise Build goes on to compose a POST.
PdBuildStart ==
    /\ BagIn(NoCall, pdCalls)
    /\ pdHist.builds < MaxBuilds
    /\ \E draw \in BuildDraws(pdBuilder) :
         /\ IF ShouldDelete(pdBuilder, draw) /\ PopOk(pdBuilder.cache)
            THEN /\ pdCalls' = PdMove(NoCall,
                       [pc |-> "do", counter |-> 0,
                        req |-> PostDelRequester(pdBuilder, "DELETE",
                                                 PopName(pdBuilder.cache))])
                 /\ pdBuilder' = [pdBuilder EXCEPT !.cache = PopRest(pdBuilder.cache)]
            ELSE /\ pdCalls' = PdMove(NoCall,
                       [pc |-> "counter", counter |-> 0, req |-> NoRequester])
                 /\ UNCHANGED pdBuilder
         /\ pdHist' = [pdHist EXCEPT !.builds = @ + 1, !.draw = draw]
    /\ UNCHANGED << schedVars, callVars, runnerVars, nanos >>

\* Build, POST branch: counter := atomic.AddInt64(&b.resourceCounter, 1)
PdPostCounter(c) ==
    /\ c.pc = "counter"
    /\ pdBuilder' = [pdBuilder EXCEPT !.resourceCounter = @ + 1]
    /\ pdCalls' = PdMove(c, [c EXCEPT !.pc = "stamp",
                                      !.counter = pdBuilder.resourceCounter + 1])
    /\ UNCHANGED << schedVars, callVars, runnerVars, nanos, pdHist >>

\* Build, POST branch: timestamp := time.Now().UnixNano(), the name, and the
\* POST requester Build returns.
PdPostStamp(c) ==
    /\ c.pc = "stamp"
    /\ LET name == PostName(nanos, c.counter) IN
         /\ pdCalls' = PdMove(c, [c EXCEPT !.pc = "do",
                                           !.req = PostDelRequester(pdBuilder, "POST", name)])
         /\ pdHist' = [pdHist EXCEPT !.posts = @ + 1, !.posted = @ \cup {name}]
    /\ UNCHANGED << schedVars, callVars, runnerVars, nanos, pdBuilder >>

\* PostDelDiscardRequester.Do returns, with or without an error, and the
\* worker is back at its loop.
PdDoReturn(c) ==
    /\ c.pc = "do"
    /\ \E ok \in BOOLEAN :
         /\ pdBuilder' = [pdBuilder EXCEPT !.cache = AfterDo(@, c.req, ok)]
         /\ pdHist' = [pdHist EXCEPT
               !.succPost  = IF c.req.operation = "POST" /\ ok THEN @ + 1 ELSE @,
               !.succDel   = IF c.req.operation = "DELETE" /\ ok THEN @ + 1 ELSE @,
               !.failedDel = IF c.req.operation = "DELETE" /\ ~ok THEN @ + 1 ELSE @,
               !.created   = IF c.req.operation = "POST" /\ ok
                             THEN @ \cup {c.req.name} ELSE @,
               !.deleted   = IF c.req.operation = "DELETE" /\ ok
                             THEN @ \cup {c.req.name} ELSE @]
    /\ pdCalls' = PdMove(c, NoCall)
    /\ UNCHANGED << schedVars, callVars, runnerVars, nanos >>

\* The nanosecond clock advances.
PdTick ==
    /\ nanos < MaxNanos
    /\ nanos' = nanos + 1
    /\ UNCHANGED << schedVars, callVars, runnerVars, pdBuilder, pdCalls, pdHist >>

PostDelNext ==
    \/ PdTick
    \/ PdBuildStart
    \/ \E c \in Calls : PdPostCounter(c)
    \/ \E c \in Calls : PdPostStamp(c)
    \/ \E c \in Calls : PdDoReturn(c)

PostDelSpec == PostDelInit /\ [][PostDelNext]_vars

\* ------------------------------------------------------------ properties

RunReturned == runPc \in {"returned", "finished"}
Recorded == BagCardinality(latencies) + BagCardinality(errors)
Key(w) == << w.req.method, MaskedURL(w.req) >>

\* C1: in every interleaving of Run and Stop, the channel is closed only
\* after Run has returned, so Run never reaches a send on the closed channel
\* (a send that panics).
C1_NoSendOnClosedChannel == ~panicked

\* C2: Stop is idempotent.  The channel is closed at most once, exactly once
\* when Schedule has returned after its two calls of Stop, and the second
\* call has returned in the step it was made in: it waits for nothing and
\* leaves the once-guard and the channel as they were.
C2_StopIdempotent ==
    /\ hist.closes <= 1
    /\ chClosed <=> hist.closes = 1
    /\ hist.stopCalls <= 2
    /\ hist.stopCalls = 2 => /\ mainPc = "returned"
                             /\ once = "done"
                             /\ hist.closes = 1
    /\ mainPc = "returned" => hist.stopCalls = 2

C2_Witness == mainPc = "returned" /\ hist.stopCalls = 2 /\ hist.closes = 1

\* C3: a weighted-random run with total = N > 0, which the caller does not
\* cancel and whose requests all succeed, returns a Result with Total = N, no
\* error, exactly N latencies and the sum of the received bytes: every
\* builder handed to a worker is executed and recorded once.
C3_AllBuildersRecorded ==
    ( /\ spec.mode = ModeWeightedRandom
      /\ spec.total > 0
      /\ spec.duration = 0
      /\ ~callerDone
      /\ mainPc = "returned"
      /\ BagCardinality(errors) = 0 )
    => /\ result.total = spec.total
       /\ BagCardinality(result.stats.errors) = 0
       /\ BagCardinality(result.stats.latencies) = spec.total
       /\ result.stats.totalReceivedBytes = hist.doBytes
       /\ hist.doStarted = hist.sent

\* C4: WeightedRandomExecutor.Run counts exactly the builders it has sent,
\* never sends more than total > 0 of them, returns nil only after sending
\* total, and, with neither context cancelled, returns nothing but nil.
C4_RunSendsExactlyTotal ==
    spec.mode = ModeWeightedRandom
    => /\ sum = hist.sent
       /\ spec.total > 0 => sum <= spec.total
       /\ (runPc \in {"returning", "returned", "finished"} /\ runErr = Nil)
             => (spec.total > 0 /\ sum = spec.total)
       /\ (RunReturned /\ execErr = Nil /\ ~ectxDone)
             => (runErr = Nil /\ spec.total > 0 /\ sum = spec.total)

C4_Witness ==
    /\ spec.mode = ModeWeightedRandom /\ spec.total = MaxTotal
    /\ runPc = "returned" /\ runErr = Nil /\ sum = MaxTotal
    /\ execErr = Nil /\ ~ectxDone

\* C5: Run stays suspended, on its send or on the bucket timer, only while
\* neither the caller's context nor the executor's is cancelled: the
\* cancellation wakes it on that context's case, and it then returns that
\* context's error.
C5_CancelledRunReturns ==
    /\ [](RunParked => (execErr = Nil /\ ~ectxDone))
    /\ [](runPc = "woken" => \/ runErr = "ctx" /\ execErr # Nil
                             \/ runErr = "ectx" /\ ectxDone)
    /\ [][runPc = "woken" => (runPc' = "returned" /\ runErr' = runErr)]_<< runPc, runErr >>
    /\ (runPc = "woken") ~> (RunReturned /\ runErr # Nil)

C5_Witness ==
    /\ spec.mode = ModeTimeSeries /\ runPc = "woken" /\ runErr = "ectx"
    /\ execErr = Nil

\* C6: once Run has returned or the caller's context is cancelled, Schedule
\* terminates (every Do returns: the steps of Progress are taken).
C6_ScheduleTerminates == (RunReturned \/ callerDone) ~> (mainPc = "returned")

\* C7: a request whose Do has started is in flight, observed or recorded,
\* whatever has become of the contexts, and Schedule returns only when all
\* the workers are gone and every request started is in its Result.
C7_InFlightRequestsFinish ==
    /\ hist.doStarted = Recorded + At("do") + At("observe")
    /\ mainPc \in {"deferStop", "returned"}
          => /\ At("exited") = spawned
             /\ result.stats = Gather
             /\ BagCardinality(result.stats.latencies)
                  + BagCardinality(result.stats.errors) = hist.doStarted

C7_Witness == callerDone /\ mainPc = "join" /\ At("do") > 0

\* C8 as stated, in the case it names: when a duration-bounded
\* weighted-random run of Schedule has returned, the latencies of its Result
\* are at most its Total.
C8_LatenciesWithinTotal ==
    (mainPc = "returned" /\ spec.mode = ModeWeightedRandom /\ spec.duration > 0)
    => BagCardinality(result.stats.latencies) <= result.total

\* C8 amended: the bound holds where the executor has an expected total, in
\* time-series mode and in weighted-random mode with total > 0; a run with
\* total = 0 is unbounded and reports Total = 0.
C8_LatenciesWithinExpectedTotal ==
    /\ (spec.mode = ModeTimeSeries \/ spec.total > 0)
          => /\ Recorded <= Metadata(spec).ExpectedTotal
             /\ mainPc = "returned"
                   => BagCardinality(result.stats.latencies) <= result.total
    /\ mainPc = "returned" => result.total = Metadata(spec).ExpectedTotal

C8_Witness ==
    /\ spec.mode = ModeWeightedRandom /\ spec.total = MaxTotal
    /\ mainPc = "returned"
    /\ BagCardinality(result.stats.latencies) = result.total

\* C9: each request executed gives one bytes observation and then one
\* outcome observation: the bytes observations are the recorded outcomes
\* and the requests between the two, and at the end they are equal.
C9_OneBytesOneOutcome ==
    /\ hist.bytesObserved = Recorded + At("observe")
    /\ hist.doStarted = hist.bytesObserved + At("do")
    /\ totalReceivedBytes = hist.doBytes
    /\ mainPc = "returned" => hist.bytesObserved = Recorded

C9_Witness ==
    /\ mainPc = "returned" /\ hist.bytesObserved = MaxTotal
    /\ BagCardinality(errors) > 0 /\ BagCardinality(latencies) > 0

\* C10: when a worker leaves a request whose Do failed, the failure is
\* recorded under the request's method and masked URL, no latency is, and the
\* worker is back at the head of its range loop.
C10_FailureKeepsWorker ==
    [][\A w \in BagToSet(workers) :
          ( /\ w.pc = "observe"
            /\ w.out.err # Nil
            /\ CopiesIn(w, workers') < CopiesIn(w, workers) )
          => /\ errors' = errors (+) SetToBag({Key(w)})
             /\ latencies' = latencies
             /\ workers' = Move(w, Worker("range", NilBuilder, NoRequester, NoOutcome))
      ]_vars

C10_Witness ==
    /\ spawned = 1 /\ BagCardinality(errors) > 0 /\ At("do") = 1

\* C11: a request whose Do returned an HTTP/2 stream error NO_ERROR leaves
\* the worker with a latency recorded and no failure, as one whose Do
\* returned nil; a request whose Do returned any other error leaves it with
\* a failure recorded and no latency.
C11_NoErrorIsSuccess ==
    [][\A w \in BagToSet(workers) :
          (w.pc = "observe" /\ CopiesIn(w, workers') < CopiesIn(w, workers))
          => IF w.out.raw = Nil \/ w.out.raw = "http2-no-error"
             THEN /\ latencies' = latencies (+) SetToBag({Key(w)})
                  /\ errors' = errors
             ELSE /\ errors' = errors (+) SetToBag({Key(w)})
                  /\ latencies' = latencies
      ]_vars

C11_Witness ==
    /\ \E w \in BagToSet(workers) :
          w.pc = "observe" /\ w.out.raw = "http2-no-error"
    /\ BagCardinality(errors) > 0

\* C12: Run is started, and a builder is offered or sent, only when all the
\* spec.client workers have been spawned; and a Run blocked on its send is
\* always released in the end, by a worker that takes the builder or by a
\* cancellation: the rendezvous does not deadlock.
C12_WorkersBeforeRun ==
    /\ [](runPc # "none" => spawned = spec.client)
    /\ [](hist.sent > 0 => spawned = spec.client)
    /\ (runPc = "parked" /\ MaySend) ~> (runPc # "parked")

C12_Witness ==
    /\ spec.client = MaxWorkers /\ spawned = MaxWorkers
    /\ runPc = "parked" /\ MaySend /\ hist.sent > 0 /\ ~callerDone

\* The requests of the profile's buckets in configuration order, each with
\* the index of its bucket, and those of them the factory builds.
RECURSIVE FlatFrom(_)
FlatFrom(b) ==
    IF b > Len(Buckets) THEN << >>
    ELSE [r \in 1..Len(Buckets[b].requests) |->
             [bucket |-> b, req |-> Buckets[b].requests[r]]] \o FlatFrom(b + 1)
HasBuilder(e) == CreateRequestBuilderFromExact(e.req).type # Nil
Buildable == SelectSeq(FlatFrom(1), HasBuilder)

\* C13: when TimeSeriesExecutor.Run sends a request of bucket k, at least
\* startTime_k seconds have passed since Run recorded its start time.
C13_BucketNotBeforeStartTime ==
    [][(spec.mode = ModeTimeSeries /\ hist.sent' = hist.sent + 1)
          => now - startTime >= Buckets[Buildable[hist.sent + 1].bucket].startTime
      ]_vars

C13_Witness ==
    /\ spec.mode = ModeTimeSeries /\ spec.buckets = BucketsAscending
    /\ hist.sent = 2 /\ now - startTime >= 1

\* C14: the n-th builder TimeSeriesExecutor.Run sends is the builder of the
\* n-th request of the configuration, bucket after bucket and request after
\* request, whatever the start times of the buckets are.
C14_ConfigurationOrder ==
    /\ [](spec.mode = ModeTimeSeries => hist.sent <= Len(Buildable))
    /\ [][(spec.mode = ModeTimeSeries /\ hist.sent' = hist.sent + 1)
             => \E w \in BagToSet(workers) :
                   /\ w.pc \in {"range", "recvParked"}
                   /\ workers' = Move(w, [w EXCEPT
                         !.pc = "build",
                         !.builder = CreateRequestBuilderFromExact(
                                        Buildable[hist.sent + 1].req)])
         ]_vars

C14_Witness ==
    /\ spec.mode = ModeTimeSeries /\ spec.buckets = BucketsDescending
    /\ hist.sent = 3 /\ runPc = "returned" /\ runErr = Nil

\* C15: a time-series run whose profile holds a request the builder factory
\* fails on does not run to its end as if nothing had happened: Run does
\* not return nil, having passed over the request.
C15_FactoryFailureAborts ==
    (spec.mode = ModeTimeSeries /\ Len(Buildable) < Len(FlatFrom(1)))
    => ~(runPc \in {"returning", "returned", "finished"} /\ runErr = Nil)

\* C20: a time-series run issues its exact DELETE requests as DELETE, never
\* as POST: on a profile without any POST request no worker holds a POST
\* requester.
C20_ExactDeleteIsDelete ==
    ( /\ spec.mode = ModeTimeSeries
      /\ \A i \in 1..Len(FlatFrom(1)) : FlatFrom(1)[i].req.method # "POST" )
    => \A w \in BagToSet(workers) : w.req.method # "POST"

\* ------------------------------------------- properties of the PostDel builder

\* The DELETE requests built and not yet returned from Do.
DeletesUnderWay == { c \in Calls : c.pc = "do" /\ c.req.operation = "DELETE" }

RECURSIVE CopiesOf(_)
CopiesOf(S) ==
    IF S = {} THEN 0
    ELSE LET c == CHOOSE x \in S : TRUE IN CopiesIn(c, pdCalls) + CopiesOf(S \ {c})

InFlightDeletes == CopiesOf(DeletesUnderWay)

Quiescent == Calls \subseteq {NoCall}

\* C16, as stated: whenever no Build or Do is under way, the size of the cache
\* is the successful POSTs minus the successful DELETEs plus the failed
\* DELETEs of names popped from the cache.
C16_CacheSizeAddsFailedDeletes ==
    Quiescent => Len(pdBuilder.cache)
                 = pdHist.succPost - pdHist.succDel + pdHist.failedDel

\* C16, amended: after any interleaving of Build calls and Do completions the
\* size of the cache is the successful POSTs minus the successful DELETEs
\* minus the DELETEs built and not yet completed, and that number is never
\* negative; a failed DELETE gives back the name its Build took and adds
\* nothing.
C16_CacheSizeCountsInFlight ==
    /\ Len(pdBuilder.cache) = pdHist.succPost - pdHist.succDel - InFlightDeletes
    /\ pdHist.succPost - pdHist.succDel - InFlightDeletes >= 0

C16_Witness ==
    /\ pdHist.failedDel > 0
    /\ InFlightDeletes > 0
    /\ pdHist.succPost > 0

\* C17: in any interleaving of concurrent Build and Do calls on one PostDel
\* builder, every DELETE requester under way targets a name whose POST on
\* that builder has completed successfully and that has not been deleted
\* successfully since, and no name is held by two DELETE requests at once.
C17_DeleteTargetsLiveName ==
    /\ \A c \in DeletesUnderWay :
         /\ c.req.name \in pdHist.created
         /\ c.req.name \notin pdHist.deleted
         /\ CopiesIn(c, pdCalls) = 1
    /\ \A c, d \in DeletesUnderWay : c.req.name = d.req.name => c = d

C17_Witness ==
    /\ Cardinality(DeletesUnderWay) = 2
    /\ pdHist.created = { c.req.name : c \in DeletesUnderWay }

\* C18: PostDel Build composes a DELETE if and only if its draw is strictly
\* less than deleteRatio (in thousandths) and the cache is non-empty at the
\* pop, and the name deleted is then the most recently pushed one, which
\* leaves the cache; in every other case Build goes on to compose a POST and
\* neither branch of the POST takes anything from the cache.  With
\* deleteRatio = 0 no DELETE is ever composed.
C18_DeleteIffDrawnAndCached ==
    /\ [][pdHist'.builds = pdHist.builds + 1
            => IF pdHist'.draw < pdBuilder.deleteRatio /\ pdBuilder.cache # << >>
               THEN /\ pdBuilder'.cache = SubSeq(pdBuilder.cache, 1, Len(pdBuilder.cache) - 1)
                    /\ \E c \in BagToSet(pdCalls') :
                         /\ c.pc = "do"
                         /\ c.req.operation = "DELETE"
                         /\ c.req.method = "DELETE"
                         /\ c.req.name = pdBuilder.cache[Len(pdBuilder.cache)]
                         /\ c.req.path[Len(c.req.path)] = c.req.name
                         /\ pdCalls' = PdMove(NoCall, c)
               ELSE /\ pdBuilder'.cache = pdBuilder.cache
                    /\ \E c \in BagToSet(pdCalls') :
                         /\ c.pc = "counter"
                         /\ pdCalls' = PdMove(NoCall, c)]_vars
    /\ [][\A c \in Calls :
            (c.pc \in {"counter", "stamp"} /\ CopiesIn(c, pdCalls') < CopiesIn(c, pdCalls))
            => /\ pdBuilder'.cache = pdBuilder.cache
               /\ \E d \in BagToSet(pdCalls') :
                    /\ pdCalls' = PdMove(c, d)
                    /\ d.pc = "stamp" \/ (d.pc = "do" /\ d.req.operation = "POST"
                                          /\ d.req.method = "POST")]_vars
    /\ [](pdBuilder.deleteRatio = 0 => DeletesUnderWay = {})

C18_Witness ==
    /\ pdBuilder.deleteRatio = 500
    /\ pdHist.draw = 500
    /\ pdHist.succPost > 0
    /\ \E c \in Calls : c.pc = "counter"
    /\ pdBuilder.cache # << >>

\* The names of the POST requesters under way.
PostsUnderWay == { c \in Calls : c.pc = "do" /\ c.req.operation = "POST" }

\* C19: no two POST requesters built by one PostDel builder carry the same
\* object name, whatever the number of concurrent Build calls and also when
\* two of them read the same nanosecond timestamp; so the name cache never
\* holds a name twice.
C19_PostNamesUnique ==
    /\ Cardinality(pdHist.posted) = pdHist.posts
    /\ \A c \in PostsUnderWay : CopiesIn(c, pdCalls) = 1
    /\ \A c, d \in PostsUnderWay : c.req.name = d.req.name => c = d
    /\ \A i, j \in 1..Len(pdBuilder.cache) :
         pdBuilder.cache[i] = pdBuilder.cache[j] => i = j

C19_Witness ==
    /\ nanos = 0
    /\ Cardinality(PostsUnderWay) = 2
    /\ Len(pdBuilder.cache) = 2

\* ------------------------------------------------- validation of requests

\* A KubeGroupVersionResource.Validate that does not ask for a resource.
KubeGroupVersionResourceValidate_NoResource(m) ==
    IF m.version = "" THEN "version is required" ELSE Nil

\* KubeGroupVersionResource.Validate: the error, Nil for nil.
KubeGroupVersionResourceValidate(m) ==
    IF m.version = "" THEN "version is required"
    ELSE IF m.resource = "" THEN "resource is required"
    ELSE Nil

\* return fmt.Errorf("kube metadata: %v", err) of the variants' Validate.
KubeMetadata(err) == "kube metadata: " \o err

\* A RequestList.Validate that lets a stale list paginate.
RequestListValidate_StalePaged(r, stale) ==
    IF KubeGroupVersionResourceValidate(r) # Nil
    THEN KubeMetadata(KubeGroupVersionResourceValidate(r))
    ELSE IF r.limit < 0 THEN "limit must >= 0"
    ELSE Nil

\* RequestList.Validate(stale)
RequestListValidate(r, stale) ==
    IF KubeGroupVersionResourceValidate(r) # Nil
    THEN KubeMetadata(KubeGroupVersionResourceValidate(r))
    ELSE IF r.limit < 0 THEN "limit must >= 0"
    ELSE IF stale /\ r.limit # 0 THEN "stale list doesn't support pagination option"
    ELSE Nil

RequestWatchListValidate(r) ==
    IF KubeGroupVersionResourceValidate(r) # Nil
    THEN KubeMetadata(KubeGroupVersionResourceValidate(r))
    ELSE Nil

RequestGetValidate(r) ==
    IF KubeGroupVersionResourceValidate(r) # Nil
    THEN KubeMetadata(KubeGroupVersionResourceValidate(r))
    ELSE IF r.name = "" THEN "name is required"
    ELSE Nil

RequestPutValidate(r) ==
    IF KubeGroupVersionResourceValidate(r) # Nil
    THEN KubeMetadata(KubeGroupVersionResourceValidate(r))
    ELSE IF r.name = "" THEN "name pattern is required"
    ELSE IF r.keySpaceSize <= 0 THEN "keySpaceSize must > 0"
    ELSE IF r.valueSize <= 0 THEN "valueSize must > 0"
    ELSE Nil

RequestGetPodLogValidate(r) ==
    IF r.namespace = "" THEN "namespace is required"
    ELSE IF r.name = "" THEN "name is required"
    ELSE Nil

\* The patch bodies followed, with what strings.TrimSpace and json.Valid make
\* of each: an empty body, an object, the same object in blanks, and a text
\* that is cut short.
Bodies == {"", "{}", " {} ", "{"}
TrimSpace(body) == IF body = " {} " THEN "{}" ELSE body
JSONValid(text) == text \in {"{}", " {} "}

RequestPatchValidate(r) ==
    IF KubeGroupVersionResourceValidate(r) # Nil
    THEN KubeMetadata(KubeGroupVersionResourceValidate(r))
    ELSE IF r.name = "" THEN "name is required"
    ELSE IF r.body = "" THEN "body is required"
    ELSE IF ~GetPatchType(r.patchType) THEN "unknown patch type"
    ELSE IF ~JSONValid(TrimSpace(r.body)) THEN "invalid JSON in patch body"
    ELSE Nil

\* RequestPostDel.Validate, deleteRatio in thousandths: 0.5 is DrawRange / 2.
RequestPostDelValidate(r) ==
    IF KubeGroupVersionResourceValidate(r) # Nil
    THEN KubeMetadata(KubeGroupVersionResourceValidate(r))
    ELSE IF r.deleteRatio < 0 \/ r.deleteRatio > DrawRange \div 2
         THEN "delete ratio must be between 0 and 0.5"
    ELSE Nil

\* WeightedRequest.Validate: the error, Nil for nil.
WeightedRequestValidate(r) ==
    IF r.shares < 0 THEN "shares requires >= 0"
    ELSE CASE r.variant = "staleList"  -> RequestListValidate(r, TRUE)
           [] r.variant = "quorumList" -> RequestListValidate(r, FALSE)
           [] r.variant = "watchList"  -> RequestWatchListValidate(r)
           [] r.variant = "staleGet"   -> RequestGetValidate(r)
           [] r.variant = "quorumGet"  -> RequestGetValidate(r)
           [] r.variant = "put"        -> RequestPutValidate(r)
           [] r.variant = "patch"      -> RequestPatchValidate(r)
           [] r.variant = "getPodLog"  -> RequestGetPodLogValidate(r)
           [] r.variant = "postDel"    -> RequestPostDelValidate(r)
           [] OTHER                    -> "empty request value"

\* The values the fields of a request are drawn from.
SharesDrawn == {-1, 0, 1}
Versions == {"", "v1"}
Resources == {"", "pods"}
Names == {"", "p"}
Limits == {-1, 0, 1}
Sizes == {0, 1}
PatchTypes == {"json", "merge", "strategic-merge", "yaml"}
DeleteRatios == {-1, 0, DrawRange \div 2, DrawRange \div 2 + 1}

\* The variants that carry a KubeGroupVersionResource: all but getPodLog.
ResourceVariants ==
    {"staleList", "quorumList", "watchList", "staleGet", "quorumGet", "put",
     "patch", "postDel"}

\* The weighted requests followed: one variant set, or none.
WeightedRequestInputs ==
    { [shares |-> s, variant |-> v, group |-> "", version |-> ver, resource |-> res,
       namespace |-> "default", limit |-> l] :
        s \in SharesDrawn, v \in {"staleList", "quorumList"}, ver \in Versions,
        res \in Resources, l \in Limits }
    \cup
    { [shares |-> s, variant |-> "watchList", group |-> "", version |-> ver,
       resource |-> res, namespace |-> "default"] :
        s \in SharesDrawn, ver \in Versions, res \in Resources }
    \cup
    { [shares |-> s, variant |-> v, group |-> "", version |-> ver, resource |-> res,
       namespace |-> "default", name |-> n] :
        s \in SharesDrawn, v \in {"staleGet", "quorumGet"}, ver \in Versions,
        res \in Resources, n \in Names }
    \cup
    { [shares |-> s, variant |-> "put", group |-> "", version |-> ver, resource |-> res,
       namespace |-> "default", name |-> n, keySpaceSize |-> k, valueSize |-> vs] :
        s \in SharesDrawn, ver \in Versions, res \in Resources, n \in Names,
        k \in Sizes, vs \in Sizes }
    \cup
    { [shares |-> s, variant |-> "patch", group |-> "", version |-> ver,
       resource |-> res, namespace |-> "default", name |-> n, keySpaceSize |-> 1,
       patchType |-> pt, body |-> b] :
        s \in SharesDrawn, ver \in Versions, res \in Resources, n \in Names,
        pt \in PatchTypes, b \in Bodies }
    \cup
    { [shares |-> s, variant |-> "getPodLog", namespace |-> ns, name |-> n] :
        s \in SharesDrawn, ns \in {"", "default"}, n \in Names }
    \cup
    { [shares |-> s, variant |-> "postDel", group |-> "", version |-> ver,
       resource |-> res, namespace |-> "default", deleteRatio |-> dr] :
        s \in SharesDrawn, ver \in Versions, res \in Resources, dr \in DeleteRatios }
    \cup
    { [shares |-> s, variant |-> ""] : s \in SharesDrawn }

\* A weighted request of a profile is about to be validated and turned into
\* a builder.
WeightedRequestInit ==
    /\ spec = Validate([mode |-> ModeWeightedRandom, total |-> 1, duration |-> 0,
                        client |-> 1, buckets |-> << >>])
    /\ SchedStart
    /\ PostDelIdle
    /\ RunnerIdle
    /\ fnIn \in WeightedRequestInputs
    /\ fnOut = NotReturned

\* r.Validate() and then CreateRequestBuilder(r, maxRetries).
ValidateAndCreateBuilder ==
    /\ ~fnOut.returned
    /\ fnOut' = [returned |-> TRUE, err |-> WeightedRequestValidate(fnIn),
                 builder |-> CreateRequestBuilder(fnIn)]
    /\ UNCHANGED << schedVars, postDelVars, runnerVars, fnIn >>

WeightedRequestSpec == WeightedRequestInit /\ [][ValidateAndCreateBuilder]_vars

\* C21: CreateRequestBuilder returns a builder for every weighted request
\* with a variant set (staleList, quorumList, watchList, staleGet, quorumGet,
\* put, patch, getPodLog, postDel), and fails with "unsupported request type"
\* only when none is set; so every request WeightedRequest.Validate accepts
\* gets a builder.
C21_EveryVariantBuilds ==
    fnOut.returned
    => /\ (fnOut.builder = NilBuilder) <=> (fnIn.variant = "")
       /\ fnOut.err = Nil => fnOut.builder # NilBuilder

\* C26: WeightedRequest.Validate returns an error when shares < 0, when no
\* variant is set, when the variant set carries a version and a resource and
\* one of them is empty, when a list has limit < 0 and when a stale list has
\* limit # 0; it returns nil for a stale list with version, resource, limit 0
\* and shares >= 0.
C26_WeightedRequestValidate ==
    fnOut.returned
    => /\ fnIn.shares < 0 => fnOut.err # Nil
       /\ fnIn.variant = "" => fnOut.err # Nil
       /\ (fnIn.variant \in ResourceVariants
           /\ (fnIn.version = "" \/ fnIn.resource = "")) => fnOut.err # Nil
       /\ (fnIn.variant \in {"staleList", "quorumList"} /\ fnIn.limit < 0)
          => fnOut.err # Nil
       /\ (fnIn.variant = "staleList" /\ fnIn.limit # 0) => fnOut.err # Nil
       /\ (fnIn.variant = "staleList" /\ fnIn.shares >= 0 /\ fnIn.version # ""
           /\ fnIn.resource # "" /\ fnIn.limit = 0) => fnOut.err = Nil

C26_Witness ==
    /\ fnOut.returned
    /\ fnIn.variant = "staleList" /\ fnIn.shares = 0 /\ fnIn.limit = 1
    /\ fnIn.version # "" /\ fnIn.resource # ""
    /\ fnOut.err = "stale list doesn't support pagination option"

\* ------------------------------------------------------ the weighted pick

\* The lists of shares followed: e.shares as NewWeightedRandomExecutor copies
\* them from config.Requests, which nothing has validated, a share below zero
\* and the empty list included.
ShareLists ==
    UNION { [1..n -> (-1)..MaxShare] : n \in 0..MaxShareLen }

RECURSIVE SumOf(_, _)
\* The sum of the first n shares of sh.
SumOf(sh, n) == IF n = 0 THEN 0 ELSE SumOf(sh, n - 1) + sh[n]

\* A walk that does not take the share it has passed off the draw.
RECURSIVE pickWalk_NoSubtract(_, _, _)
pickWalk_NoSubtract(sh, i, rnd) ==
    IF i > Len(sh) THEN 0
    ELSE IF rnd < sh[i] THEN i
    ELSE pickWalk_NoSubtract(sh, i + 1, rnd)

\* The loop of randomPick from index i on with rnd left: the index of the
\* builder returned, 0 for panic("unreachable").
RECURSIVE pickWalk(_, _, _)
pickWalk(sh, i, rnd) ==
    IF i > Len(sh) THEN 0
    ELSE IF rnd < sh[i] THEN i
    ELSE pickWalk(sh, i + 1, rnd - sh[i])

\* The draws rand.Int(rand.Reader, big.NewInt(sum)) can return: [0, sum);
\* rand.Int panics when sum <= 0, and the call is followed with no draw.
PickDraws(sh) ==
    IF SumOf(sh, Len(sh)) > 0 THEN 0..(SumOf(sh, Len(sh)) - 1) ELSE {-1}

\* randomPick on shares sh when rand.Int returns rnd.
randomPickOn(sh, rnd) ==
    IF SumOf(sh, Len(sh)) <= 0
    THEN [returned |-> TRUE, index |-> 0, panic |-> "crypto/rand: argument to Int is <= 0"]
    ELSE IF pickWalk(sh, 1, rnd) = 0
    THEN [returned |-> TRUE, index |-> 0, panic |-> "unreachable"]
    ELSE [returned |-> TRUE, index |-> pickWalk(sh, 1, rnd), panic |-> Nil]

\* An executor with shares sh is about to pick, and rand.Int will return rnd.
PickInit ==
    /\ spec = Validate([mode |-> ModeWeightedRandom, total |-> 1, duration |-> 0,
                        client |-> 1, buckets |-> << >>])
    /\ SchedStart
    /\ PostDelIdle
    /\ RunnerIdle
    /\ fnIn \in UNION { { [shares |-> sh, rnd |-> r] : r \in PickDraws(sh) } :
                         sh \in ShareLists }
    /\ fnOut = NotReturned

RandomPickCall ==
    /\ ~fnOut.returned
    /\ fnOut' = randomPickOn(fnIn.shares, fnIn.rnd)
    /\ UNCHANGED << schedVars, postDelVars, runnerVars, fnIn >>

PickSpec == PickInit /\ [][RandomPickCall]_vars

\* The shares of a validated request list: none below zero.
SharesValid(sh) == \A i \in 1..Len(sh) : sh[i] >= 0

\* C22: for shares s1..sk, none negative, with a positive sum S, the pick
\* maps the draw r in [0, S) to the builder i with
\* s1+..+s(i-1) <= r < s1+..+si; builder i is selected for exactly s_i of the
\* S draws, a request with shares 0 never; the index lies within the builder
\* list and panic("unreachable") is not reached.
C22_PickFollowsShares ==
    (fnOut.returned /\ SharesValid(fnIn.shares)
        /\ SumOf(fnIn.shares, Len(fnIn.shares)) > 0)
    => /\ fnOut.panic = Nil
       /\ fnOut.index \in 1..Len(fnIn.shares)
       /\ SumOf(fnIn.shares, fnOut.index - 1) <= fnIn.rnd
       /\ fnIn.rnd < SumOf(fnIn.shares, fnOut.index)
       /\ fnIn.shares[fnOut.index] > 0
       /\ \A i \in 1..Len(fnIn.shares) :
            Cardinality({ r \in PickDraws(fnIn.shares) :
                            randomPickOn(fnIn.shares, r).index = i }) = fnIn.shares[i]

C22_Witness ==
    /\ fnOut.returned
    /\ fnIn.shares = << 1, 0, 2 >>
    /\ fnIn.rnd = 1
    /\ fnOut.index = 3

\* -------------------------------------------------------- the masked URL

\* The methods of the requesters of src/request.
Methods == {"GET", "LIST", "WATCHLIST", "POD_LOG", "POST", "PUT", "DELETE", "PATCH"}

\* The URLs followed: a path of one to MaxSegments segments, with or without
\* a query.
Segments == {"api", "v1", "pods", "p-1"}
Queries == {"", "timeout=60s"}
URLPaths == UNION { [1..n -> Segments] : n \in 1..MaxSegments }

\* The URL MaskedURL returns: for DELETE and PATCH a copy of the request URL
\* parsed from its text, with Path set; the request URL itself otherwise.
MaskedURLOf(reqr) == [path |-> MaskedURL(reqr), query |-> reqr.query]

MaskedURLInit ==
    /\ spec = Validate([mode |-> ModeWeightedRandom, total |-> 1, duration |-> 0,
                        client |-> 1, buckets |-> << >>])
    /\ SchedStart
    /\ PostDelIdle
    /\ RunnerIdle
    /\ fnIn \in { [method |-> m, path |-> p, query |-> q] :
                     m \in Methods, p \in URLPaths, q \in Queries }
    /\ fnOut = NotReturned

MaskedURLCall ==
    /\ ~fnOut.returned
    /\ fnOut' = [returned |-> TRUE, url |-> MaskedURLOf(fnIn)]
    /\ UNCHANGED << schedVars, postDelVars, runnerVars, fnIn >>

MaskedURLSpec == MaskedURLInit /\ [][MaskedURLCall]_vars

\* C23: MaskedURL replaces the last path segment of the request URL by the
\* literal ":name" exactly when the method is DELETE or PATCH and keeps every
\* other part of the URL; for every other method it returns the URL as it is.
C23_MaskedOnlyDeleteAndPatch ==
    fnOut.returned
    => IF fnIn.method \in {"DELETE", "PATCH"}
       THEN /\ Len(fnOut.url.path) = Len(fnIn.path)
            /\ fnOut.url.path[Len(fnIn.path)] = ":name"
            /\ \A i \in 1..(Len(fnIn.path) - 1) : fnOut.url.path[i] = fnIn.path[i]
            /\ fnOut.url.query = fnIn.query
       ELSE /\ fnOut.url.path = fnIn.path
            /\ fnOut.url.query = fnIn.query

C23_Witness ==
    /\ fnOut.returned
    /\ fnIn.method = "PATCH"
    /\ fnIn.path = << "api", "v1", "p-1" >>
    /\ fnIn.query # ""
    /\ fnOut.url.path = << "api", "v1", ":name" >>

\* ------------------------------------------------ validation of a profile

\* ContentType.Validate and ExecutionMode.Validate: the error, Nil for nil.
ContentTypeValidate(ct) ==
    IF ct \in {"json", "protobuf"} THEN Nil ELSE "unsupported content type"
ExecutionModeValidate(em) ==
    IF em \in {ModeWeightedRandom, ModeTimeSeries} THEN Nil
    ELSE "unsupported execution mode"

\* A LoadProfileSpec.Validate that does not look at client.
LoadProfileSpecValidate_AnyClient(sp) ==
    IF sp.conns <= 0 THEN "conns requires > 0"
    ELSE IF ContentTypeValidate(sp.contentType) # Nil
         THEN ContentTypeValidate(sp.contentType)
    ELSE IF ExecutionModeValidate(sp.mode) # Nil THEN ExecutionModeValidate(sp.mode)
    ELSE IF sp.modeConfig = [kind |-> Nil] THEN "modeConfig is required"
    ELSE Nil

\* The nil ModeConfig.
NilModeConfig == [kind |-> Nil]

\* LoadProfileSpec.Validate: the common fields and nothing else; the error,
\* Nil for nil.  No field of the spec is assigned.
LoadProfileSpecValidate(sp) ==
    IF sp.conns <= 0 THEN "conns requires > 0"
    ELSE IF sp.client <= 0 THEN "client requires > 0"
    ELSE IF ContentTypeValidate(sp.contentType) # Nil
         THEN ContentTypeValidate(sp.contentType)
    ELSE IF ExecutionModeValidate(sp.mode) # Nil THEN ExecutionModeValidate(sp.mode)
    ELSE IF sp.modeConfig = NilModeConfig THEN "modeConfig is required"
    ELSE Nil

\* LoadProfile.Validate, on a copy of the profile (value receiver): the error
\* and the profile the caller holds afterwards.
LoadProfileValidate(lp) ==
    [returned |-> TRUE,
     err |-> IF lp.version # 1 THEN "version should be 1"
             ELSE LoadProfileSpecValidate(lp.spec),
     profile |-> lp]

\* Requests that WeightedRequest.Validate accepts and requests it rejects.
GoodRequest ==
    [shares |-> 1, variant |-> "quorumGet", group |-> "", version |-> "v1",
     resource |-> "pods", namespace |-> "default", name |-> "p"]
BadRequests ==
    { [GoodRequest EXCEPT !.shares = -1],
      [GoodRequest EXCEPT !.version = ""],
      [GoodRequest EXCEPT !.resource = ""],
      [shares |-> 1, variant |-> "staleList", group |-> "", version |-> "v1",
       resource |-> "pods", namespace |-> "default", limit |-> 1],
      [shares |-> 1, variant |-> "patch", group |-> "", version |-> "v1",
       resource |-> "pods", namespace |-> "default", name |-> "p", keySpaceSize |-> 1,
       patchType |-> "merge", body |-> "{"],
      [shares |-> 1, variant |-> "patch", group |-> "", version |-> "v1",
       resource |-> "pods", namespace |-> "default", name |-> "p", keySpaceSize |-> 1,
       patchType |-> "yaml", body |-> "{}"],
      [shares |-> 1, variant |-> "postDel", group |-> "", version |-> "v1",
       resource |-> "pods", namespace |-> "default",
       deleteRatio |-> DrawRange \div 2 + 1],
      [shares |-> 1, variant |-> "postDel", group |-> "", version |-> "v1",
       resource |-> "pods", namespace |-> "default", deleteRatio |-> -1] }

\* The mode configurations followed: none, a time-series one, and
\* weighted-random ones with one request, good or bad, and total and duration.
ModeConfigs ==
    { NilModeConfig, [kind |-> ModeTimeSeries, interval |-> 1, buckets |-> << >>] }
    \cup
    { [kind |-> ModeWeightedRandom, rate |-> 0, total |-> t, duration |-> d,
       requests |-> << r >>] :
         t \in {0, 1}, d \in {0, 1}, r \in {GoodRequest} \cup BadRequests }

LoadProfiles ==
    { [version |-> v,
       spec |-> [conns |-> cn, client |-> cl, contentType |-> ct, mode |-> m,
                 modeConfig |-> mc]] :
        v \in {0, 1, 2}, cn \in {-1, 0, 1}, cl \in {0, 1, 2},
        ct \in {"json", "protobuf", "yaml"},
        m \in {ModeWeightedRandom, ModeTimeSeries, "", "replay"},
        mc \in ModeConfigs }

LoadProfileInit ==
    /\ spec = Validate([mode |-> ModeWeightedRandom, total |-> 1, duration |-> 0,
                        client |-> 1, buckets |-> << >>])
    /\ SchedStart
    /\ PostDelIdle
    /\ RunnerIdle
    /\ fnIn \in LoadProfiles
    /\ fnOut = NotReturned

LoadProfileValidateCall ==
    /\ ~fnOut.returned
    /\ fnOut' = LoadProfileValidate(fnIn)
    /\ UNCHANGED << schedVars, postDelVars, runnerVars, fnIn >>

ProfileValidateSpec == LoadProfileInit /\ [][LoadProfileValidateCall]_vars

WeightedConfigOf(lp) == lp.spec.modeConfig.kind = ModeWeightedRandom

\* C24: validating a load profile returns an error whenever its
\* weighted-random modeConfig holds a request with shares < 0, a stale list
\* with limit > 0, a patch with an invalid JSON body or an unknown patchType,
\* a postDel with deleteRatio outside [0, 0.5] or a variant without resource
\* or version; and it runs the mode-specific Validate, so that a duration set
\* together with a total has been cleared when validation succeeds.
C24_ProfileValidatesModeConfig ==
    (fnOut.returned /\ WeightedConfigOf(fnIn))
    => /\ (\E i \in 1..Len(fnIn.spec.modeConfig.requests) :
              fnIn.spec.modeConfig.requests[i] \in BadRequests) => fnOut.err # Nil
       /\ (fnOut.err = Nil /\ fnIn.spec.modeConfig.total > 0)
          => fnOut.profile.spec.modeConfig.duration = 0

CommonFieldsBad(lp) ==
    \/ lp.version # 1
    \/ lp.spec.conns <= 0
    \/ lp.spec.client <= 0
    \/ lp.spec.contentType \notin {"json", "protobuf"}
    \/ lp.spec.mode \notin {ModeWeightedRandom, ModeTimeSeries}
    \/ lp.spec.modeConfig = NilModeConfig

\* C25: LoadProfile.Validate returns an error if version # 1, conns <= 0,
\* client <= 0, contentType is neither json nor protobuf, mode is neither
\* weighted-random nor time-series, or modeConfig is nil, and nil otherwise;
\* the profile is the same after the call as before.
C25_CommonFieldsValidated ==
    fnOut.returned
    => /\ (fnOut.err # Nil) <=> CommonFieldsBad(fnIn)
       /\ fnOut.profile = fnIn

C25_Witness ==
    /\ fnOut.returned
    /\ fnOut.err = Nil
    /\ WeightedConfigOf(fnIn)
    /\ fnIn.spec.modeConfig.total > 0 /\ fnIn.spec.modeConfig.duration > 0
    /\ fnIn.spec.client = 2

\* -------------------------------- validation of a weighted-random config

\* The totals and durations followed (ints, nothing rejects one below zero)
\* and the default overrides: no total, an int total, a total of another type.
CountsDrawn == {-1, 0, 1, 2, 3}
OverridesDrawn ==
    { NoOverrides, IntTotal(0), IntTotal(5),
      [total |-> [type |-> "float64", value |-> 5]] }

WeightedRandomConfigInit ==
    /\ spec = Validate([mode |-> ModeWeightedRandom, total |-> 1, duration |-> 0,
                        client |-> 1, buckets |-> << >>])
    /\ SchedStart
    /\ PostDelIdle
    /\ RunnerIdle
    /\ fnIn \in { [config |-> [rate |-> 0, total |-> t, duration |-> d],
                   defaultOverrides |-> o] :
                     t \in CountsDrawn, d \in CountsDrawn, o \in OverridesDrawn }
    /\ fnOut = NotReturned

WeightedRandomConfigValidateCall ==
    /\ ~fnOut.returned
    /\ fnOut' = [returned |-> TRUE, err |-> Nil,
                 config |-> WeightedRandomConfigValidate(fnIn.config,
                                                         fnIn.defaultOverrides)]
    /\ UNCHANGED << schedVars, postDelVars, runnerVars, fnIn >>

WeightedRandomConfigSpec ==
    WeightedRandomConfigInit /\ [][WeightedRandomConfigValidateCall]_vars

\* What C27 says of total and duration after Validate, case by case.
ValidateCases ==
    IF fnIn.config.total > 0 /\ fnIn.config.duration > 0
    THEN /\ fnOut.config.duration = 0
         /\ fnOut.config.total = fnIn.config.total
    ELSE IF fnIn.config.total = 0 /\ fnIn.config.duration = 0
            /\ fnIn.defaultOverrides.total.type = "int"
    THEN /\ fnOut.config.total = fnIn.defaultOverrides.total.value
         /\ fnOut.config.duration = 0
    ELSE /\ fnOut.config.total = fnIn.config.total
         /\ fnOut.config.duration = fnIn.config.duration

\* C27, as stated: after WeightedRandomConfig.Validate at most one of total
\* and duration is nonzero; both positive, duration is cleared and total
\* kept; both zero and an integer default total, total is that default; in
\* every other case both are unchanged.
C27_AtMostOneNonzero ==
    fnOut.returned
    => /\ fnOut.config.total = 0 \/ fnOut.config.duration = 0
       /\ ValidateCases

\* C27, amended: the same for a config whose total and duration are not
\* negative, the domain of the two fields; a negative total or duration is
\* not rejected and is left beside a nonzero other field.
C27_AtMostOneNonzeroOfNaturals ==
    (fnOut.returned /\ fnIn.config.total >= 0 /\ fnIn.config.duration >= 0)
    => /\ fnOut.config.total = 0 \/ fnOut.config.duration = 0
       /\ ValidateCases
       /\ fnOut.err = Nil

C27_Witness ==
    /\ fnOut.returned
    /\ fnIn.config.total = 2 /\ fnIn.config.duration = 1
    /\ fnIn.defaultOverrides = IntTotal(5)
    /\ fnOut.config.total = 2 /\ fnOut.config.duration = 0

\* ------------------------------------------- deserialisation of a spec

\* A key of a YAML or JSON mapping: absent, or present with a value.
Absent == [present |-> FALSE]
Opt(v) == [present |-> TRUE, value |-> v]

\* Decoding a key into a field of a Go struct: the zero value when absent.
Field(k, zero) == IF k.present THEN k.value ELSE zero

\* The modeConfig mappings followed: the one of a weighted-random config, the
\* one of a time-series config, and the empty mapping.
NoKeys ==
    [rate |-> Absent, total |-> Absent, duration |-> Absent, requests |-> Absent,
     interval |-> Absent, buckets |-> Absent]
ModeConfigMaps ==
    { NoKeys,
      [NoKeys EXCEPT !.rate = Opt(150), !.total = Opt(2000),
                     !.requests = Opt(<< GoodRequest >>)],
      [NoKeys EXCEPT !.interval = Opt("2s"), !.buckets = Opt(BucketsAscending)] }

\* The spec documents followed, in YAML and in JSON: every combination of an
\* absent, known or unknown mode, an absent or present modeConfig, and the
\* top-level rate, total, duration and requests of the legacy format.
SpecDocuments ==
    { [format |-> f, mode |-> m, modeConfig |-> mc, rate |-> r, total |-> t,
       duration |-> d, requests |-> rq] :
        f \in {"yaml", "json"},
        m \in {Absent, Opt(ModeWeightedRandom), Opt(ModeTimeSeries), Opt("replay")},
        mc \in {Absent} \cup { Opt(c) : c \in ModeConfigMaps },
        r \in {Absent, Opt(50)},
        t \in {Absent, Opt(5000)},
        d \in {Absent, Opt(120)},
        rq \in {Absent, Opt(<< >>), Opt(<< GoodRequest >>)} }

\* unmarshal(temp): the tempSpec of UnmarshalYAML and UnmarshalJSON; its
\* ModeConfig map is nil when the key is absent.
TempSpec(doc) ==
    [mode |-> Field(doc.mode, ""),
     modeConfig |-> doc.modeConfig,
     rate |-> Field(doc.rate, 0),
     total |-> Field(doc.total, 0),
     duration |-> Field(doc.duration, 0),
     requests |-> Field(doc.requests, << >>)]

\* A migration that does not lift the duration.
LegacyConfig_NoDuration(temp) ==
    [kind |-> ModeWeightedRandom, rate |-> temp.rate, total |-> temp.total,
     duration |-> 0, requests |-> temp.requests]

\* The WeightedRandomConfig synthesised from the legacy fields.
LegacyConfig(temp) ==
    [kind |-> ModeWeightedRandom, rate |-> temp.rate, total |-> temp.total,
     duration |-> temp.duration, requests |-> temp.requests]

\* The modeConfig mapping, re-encoded and decoded into the typed config of
\* the mode: the keys the type has, the zero value for the others.
TypedConfig(mode, m) ==
    IF mode = ModeWeightedRandom
    THEN [kind |-> ModeWeightedRandom, rate |-> Field(m.rate, 0),
          total |-> Field(m.total, 0), duration |-> Field(m.duration, 0),
          requests |-> Field(m.requests, << >>)]
    ELSE [kind |-> ModeTimeSeries, interval |-> Field(m.interval, ""),
          buckets |-> Field(m.buckets, << >>)]

\* temp.Mode == "" && len(temp.Requests) > 0
IsLegacy(doc, temp) == temp.mode = "" /\ Len(temp.requests) > 0

\* LoadProfileSpec.UnmarshalYAML and UnmarshalJSON, which differ in the codec
\* only: the error and the Mode and ModeConfig of the spec afterwards.
Unmarshal(doc) ==
    LET temp == TempSpec(doc) IN
      IF IsLegacy(doc, temp)
      THEN [returned |-> TRUE, err |-> Nil,
            spec |-> [mode |-> ModeWeightedRandom, modeConfig |-> LegacyConfig(temp)]]
      ELSE IF ~temp.modeConfig.present
      THEN [returned |-> TRUE, err |-> Nil,
            spec |-> [mode |-> temp.mode, modeConfig |-> NilModeConfig]]
      ELSE IF temp.mode \in {ModeWeightedRandom, ModeTimeSeries}
      THEN [returned |-> TRUE, err |-> Nil,
            spec |-> [mode |-> temp.mode,
                      modeConfig |-> TypedConfig(temp.mode, temp.modeConfig.value)]]
      ELSE [returned |-> TRUE, err |-> "unknown mode",
            spec |-> [mode |-> temp.mode, modeConfig |-> NilModeConfig]]

UnmarshalInit ==
    /\ spec = Validate([mode |-> ModeWeightedRandom, total |-> 1, duration |-> 0,
                        client |-> 1, buckets |-> << >>])
    /\ SchedStart
    /\ PostDelIdle
    /\ RunnerIdle
    /\ fnIn \in SpecDocuments
    /\ fnOut = NotReturned

UnmarshalCall ==
    /\ ~fnOut.returned
    /\ fnOut' = Unmarshal(fnIn)
    /\ UNCHANGED << schedVars, postDelVars, runnerVars, fnIn >>

UnmarshalSpec == UnmarshalInit /\ [][UnmarshalCall]_vars

\* The spec has been migrated: weighted-random, with a config of exactly the
\* top-level values of the document.
Migrated ==
    /\ fnOut.err = Nil
    /\ fnOut.spec.mode = ModeWeightedRandom
    /\ fnOut.spec.modeConfig.kind = ModeWeightedRandom
    /\ fnOut.spec.modeConfig.rate = Field(fnIn.rate, 0)
    /\ fnOut.spec.modeConfig.total = Field(fnIn.total, 0)
    /\ fnOut.spec.modeConfig.duration = Field(fnIn.duration, 0)
    /\ fnOut.spec.modeConfig.requests = Field(fnIn.requests, << >>)

\* C28, as stated: a spec document (YAML or JSON) with no mode and with any of
\* the top-level fields rate, total, duration or requests deserialises to
\* mode weighted-random and a WeightedRandomConfig of exactly those values.
C28_LegacyMigratesOnAnyField ==
    (fnOut.returned /\ ~fnIn.mode.present
        /\ (fnIn.rate.present \/ fnIn.total.present \/ fnIn.duration.present
            \/ fnIn.requests.present))
    => Migrated

\* C28, amended: a spec document with no mode and a non-empty top-level
\* requests list deserialises to mode weighted-random and a
\* WeightedRandomConfig of exactly the top-level rate, total, duration and
\* requests; without requests the top-level rate, total and duration are not
\* lifted: the mode stays empty and no config is synthesised.
C28_LegacyMigratesOnRequests ==
    (fnOut.returned /\ ~fnIn.mode.present)
    => IF fnIn.requests.present /\ Len(fnIn.requests.value) > 0
       THEN Migrated
       ELSE /\ fnOut.spec.mode = ""
            /\ fnOut.spec.modeConfig = NilModeConfig
            /\ (fnOut.err = Nil) <=> ~fnIn.modeConfig.present

C28_Witness ==
    /\ fnOut.returned
    /\ ~fnIn.mode.present /\ ~fnIn.modeConfig.present
    /\ fnIn.rate = Opt(50) /\ fnIn.total = Opt(5000) /\ fnIn.duration = Opt(120)
    /\ fnIn.requests = Opt(<< GoodRequest >>)
    /\ fnOut.spec.modeConfig.duration = 120

\* C29: deserialising a spec whose mode is neither weighted-random nor
\* time-series fails with an error, with or without a modeConfig; and every
\* spec that deserialises with a modeConfig has a ModeConfig of the concrete
\* type of its mode.
C29_UnknownModeFails ==
    fnOut.returned
    => /\ (fnIn.mode.present
           /\ fnIn.mode.value \notin {ModeWeightedRandom, ModeTimeSeries})
          => fnOut.err # Nil
       /\ (fnOut.err = Nil /\ fnOut.spec.modeConfig # NilModeConfig)
          => fnOut.spec.modeConfig.kind = fnOut.spec.mode

\* ------------------------------------------------ executeSpecs: spec by spec

\* The length of the longest profile executeSpecs is followed on.
MaxSpecs == 2

\* The specs of a multi-spec profile: a weighted-random spec of one
\* request, a weighted-random spec that runs for a duration, and a
\* time-series spec, each with one client.
RunnerProfiles ==
    { Validate([mode |-> ModeWeightedRandom, total |-> 1, duration |-> 0,
                client |-> 1, buckets |-> << >>]),
      Validate([mode |-> ModeWeightedRandom, total |-> 0, duration |-> 1,
                client |-> 1, buckets |-> << >>]),
      [mode |-> ModeTimeSeries, total |-> 0, duration |-> 0, client |-> 1,
       buckets |-> BucketsAscending] }

\* profileCfg.Specs: executeSpecs returns an error on the empty list.
SpecLists == UNION { [1..n -> RunnerProfiles] : n \in 1..MaxSpecs }

\* executeSpecs has called Schedule on the first spec.
RunnerInit ==
    /\ specs \in SpecLists
    /\ specIdx = 1
    /\ spec = specs[1]
    /\ results = 0
    /\ staleRuns = 0
    /\ runnerHist = [started |-> << 1 >>, returned |-> << >>, sent |-> << >>]
    /\ SchedStart
    /\ PostDelIdle
    /\ CallIdle

\* A runner that goes on to the next spec once the workers of this one are
\* started.
ScheduleReturned_Started == mainPc # "spawn"

\* result, err := request.Schedule(ctx, &spec, restClis): a synchronous call,
\* the loop goes on when Schedule has returned.
ScheduleReturned == mainPc = "returned"

\* The Run goroutine the Schedule that has returned leaves behind can still
\* come to the send of its select: it has a builder left to offer.  (Run is
\* not joined by Schedule when Stop's e.wg.Wait() passed before Run's
\* e.wg.Add(1).)
RunMaySendLater ==
    CASE runPc = "select" -> TRUE
      [] runPc \in {"start", "timer"} ->
           IF spec.mode = ModeWeightedRandom
           THEN ~LoopDone(spec.total, sum)
           ELSE \E b \in (IF runPc = "start" THEN 1 ELSE bi)..Len(Buckets) :
                   \E r \in 1..Len(Buckets[b].requests) :
                      createBuilderForExactRequest(Buckets[b].requests[r]).type # Nil
      [] OTHER -> FALSE

\* The history of executeSpecs after the Schedule of spec specIdx returned.
Returned(h) ==
    [h EXCEPT !.returned = Append(@, specIdx), !.sent = Append(@, hist.sent)]

\* The loop body for spec i ends and the body for spec i+1 begins:
\* results = append(results, result), then Schedule(ctx, &spec, restClis) is
\* called on the next spec: a fresh executor, metric and worker group, and a
\* ctx derived from the caller's, done from the start if the caller's is.
ExecuteNext ==
    /\ Alive
    /\ specIdx \in 1..(Len(specs) - 1)
    /\ ScheduleReturned
    /\ results' = results + 1
    /\ specIdx' = specIdx + 1
    /\ spec' = specs[specIdx + 1]
    /\ staleRuns' = staleRuns + (IF RunMaySendLater THEN 1 ELSE 0)
    /\ runnerHist' = [Returned(runnerHist) EXCEPT !.started = Append(@, specIdx + 1)]
    /\ now' = 0
    /\ ctxDone' = callerDone
    /\ execErr' = (IF callerDone THEN "canceled" ELSE Nil)
    /\ ectxDone' = FALSE
    /\ once' = "fresh" /\ wgCount' = 0 /\ chClosed' = FALSE
    /\ mainPc' = "spawn" /\ stopRet' = Nil /\ spawned' = 0 /\ result' = NoResult
    /\ runPc' = "none" /\ runErr' = Nil /\ sum' = 0 /\ bi' = 1 /\ ri' = 1
    /\ startTime' = 0
    /\ workers' = EmptyBag
    /\ errors' = EmptyBag /\ latencies' = EmptyBag /\ totalReceivedBytes' = 0
    /\ hist' = [sent |-> 0, closes |-> 0, stopCalls |-> 0, doStarted |-> 0,
                doBytes |-> 0, bytesObserved |-> 0]
    /\ UNCHANGED << postDelVars, callVars, specs, callerDone, panicked >>

\* The Schedule of the last spec has returned: the loop ends, and
\* aggregateResults(results) is returned.
ExecuteReturn ==
    /\ Alive
    /\ specIdx = Len(specs)
    /\ mainPc = "returned"
    /\ results' = results + 1
    /\ specIdx' = specIdx + 1
    /\ runnerHist' = Returned(runnerHist)
    /\ UNCHANGED << schedVars, postDelVars, callVars, specs, staleRuns >>

\* The caller cancels its ctx after the ctx of the Schedule under way is
\* done: nothing changes for this Schedule, the next finds its ctx done.
CallerCancelLate ==
    /\ Alive
    /\ specIdx <= Len(specs)
    /\ ~callerDone
    /\ ctxDone
    /\ callerDone' = TRUE
    /\ UNCHANGED << auxVars, spec, now, ctxDone, execErr, ectxDone, stopVars, mainVars,
                    runVars, workers, metricVars, panicked, hist >>

\* The Run of an earlier executor takes <-ctx.Done() or <-e.ctx.Done(), both
\* ready, and returns.
StaleRunReturn ==
    /\ Alive
    /\ staleRuns > 0
    /\ staleRuns' = staleRuns - 1
    /\ UNCHANGED << schedVars, postDelVars, callVars, specs, specIdx, results,
                    runnerHist >>

\* The Run of an earlier executor takes the send, on the channel its Stop has
\* closed: panic.
StaleRunSendOnClosed ==
    /\ Alive
    /\ staleRuns > 0
    /\ panicked' = TRUE
    /\ UNCHANGED << auxVars, spec, now, ctxVars, stopVars, mainVars, runVars, workers,
                    metricVars, hist >>

RunnerNext ==
    \/ Next
    \/ ExecuteNext
    \/ ExecuteReturn
    \/ CallerCancelLate
    \/ StaleRunReturn
    \/ StaleRunSendOnClosed

RunnerSpec == RunnerInit /\ [][RunnerNext]_vars

\* C30: executeSpecs runs the specs one after another in list order: when
\* the Schedule of spec i+1 is started, the Schedule of spec i has returned,
\* its executor is stopped (once-guard used, channel closed, e.ctx done) and
\* every worker it started has exited, so no request of spec i is in flight
\* next to one of spec i+1.
C30_SpecsSequential ==
    [][specIdx' = specIdx + 1 /\ specIdx < Len(specs)
          => /\ mainPc = "returned"
             /\ once = "done" /\ chClosed /\ ectxDone
             /\ spawned = spec.client
             /\ At("exited") = spawned
             /\ runnerHist.started = [i \in 1..specIdx |-> i]
             /\ runnerHist.returned = [i \in 1..(specIdx - 1) |-> i]]_vars

\* The first spec has sent a request and its Schedule has returned; a
\* request of the second spec is in flight.
C30_Witness ==
    /\ specIdx = 2
    /\ runnerHist.returned = << 1 >>
    /\ runnerHist.sent[1] > 0
    /\ At("do") > 0

\* --------------------------------------------------- the aggregated result

\* The URLs the results are keyed by, the latencies and the errors recorded.
ResultURLs == {"u1", "u2"}
EmptyMap == [u \in {} |-> << >>]

\* LatenciesByURL of a per-spec result: a map from some URLs to lists.
LatencyMaps ==
    { EmptyMap,
      [u \in {"u1"} |-> << 1 >>],
      [u \in {"u1"} |-> << 2 >>],
      [u \in ResultURLs |-> IF u = "u1" THEN << 1, 2 >> ELSE << 3 >>] }

\* The Results Schedule returned for the specs: errors, latencies by URL,
\* bytes, total and duration.
ResultsDrawn ==
    { [errors |-> e, latencies |-> l, totalReceivedBytes |-> n.bytes,
       total |-> n.total, duration |-> n.duration] :
        e \in { << >>, << "e1" >>, << "e2", "e1" >> },
        l \in LatencyMaps,
        n \in { [bytes |-> 0, total |-> 0, duration |-> 0],
                [bytes |-> 5, total |-> 1, duration |-> 2] } }

\* results in executeSpecs after the loop: one Result for each spec.
ResultLists == UNION { [1..n -> ResultsDrawn] : n \in 1..MaxSpecs }

\* The maps the call can reach: the LatenciesByURL of result i at i (maps are
\* references), and after them the map aggregateResults makes.
MapsOf(rs) ==
    [i \in 1..(Len(rs) + 1) |-> IF i <= Len(rs) THEN rs[i].latencies ELSE EmptyMap]

\* An aggregate that takes the map of the first result for its own.
NewAggregated_FirstMap(rs) ==
    [errors |-> << >>, latenciesByURL |-> 1, totalReceivedBytes |-> 0, total |-> 0,
     maps |-> MapsOf(rs)]

\* aggregated := &request.Result{...}: no errors, a map of its own, bytes
\* and total 0.
NewAggregated(rs) ==
    [errors |-> << >>, latenciesByURL |-> Len(rs) + 1, totalReceivedBytes |-> 0,
     total |-> 0, maps |-> MapsOf(rs)]

\* for url, latencies := range result.LatenciesByURL: the list of each URL of
\* src is appended to the list m has for it, an empty one if it has none.
AppendLatencies(m, src) ==
    [u \in DOMAIN m \cup DOMAIN src |->
        (IF u \in DOMAIN m THEN m[u] ELSE << >>)
        \o (IF u \in DOMAIN src THEN src[u] ELSE << >>)]

\* The loop of aggregateResults from result i on.
RECURSIVE aggregateFrom(_, _, _)
aggregateFrom(rs, i, agg) ==
    IF i > Len(rs)
    THEN agg
    ELSE aggregateFrom(rs, i + 1,
            [agg EXCEPT
               !.errors = @ \o rs[i].errors,
               !.maps = [@ EXCEPT ![agg.latenciesByURL] =
                                     AppendLatencies(@, agg.maps[i])],
               !.totalReceivedBytes = @ + rs[i].totalReceivedBytes,
               !.total = @ + rs[i].total])

\* aggregateResults(results)
aggregateResults(rs) == aggregateFrom(rs, 1, NewAggregated(rs))

\* totalDuration += result.Duration, over the loop of executeSpecs.
RECURSIVE totalDuration(_, _)
totalDuration(rs, n) == IF n = 0 THEN 0 ELSE totalDuration(rs, n - 1) + rs[n].duration

\* The end of executeSpecs: aggregated := aggregateResults(results),
\* aggregated.Duration = totalDuration, return results, aggregated, nil.
\* The results are returned as the call has left them.
executeSpecsReturn(rs) ==
    LET agg == aggregateResults(rs)
    IN [returned |-> TRUE,
        results |-> [i \in 1..Len(rs) |->
                        [rs[i] EXCEPT !.latencies = agg.maps[i]]],
        aggregated |-> [errors |-> agg.errors,
                        latencies |-> agg.maps[agg.latenciesByURL],
                        totalReceivedBytes |-> agg.totalReceivedBytes,
                        total |-> agg.total,
                        duration |-> totalDuration(rs, Len(rs))]]

AggregateInit ==
    /\ fnIn \in ResultLists
    /\ fnOut = NotReturned
    /\ spec = Validate([mode |-> ModeWeightedRandom, total |-> 1, duration |-> 0,
                        client |-> 1, buckets |-> << >>])
    /\ SchedStart
    /\ PostDelIdle
    /\ RunnerIdle

AggregateCall ==
    /\ ~fnOut.returned
    /\ fnOut' = executeSpecsReturn(fnIn)
    /\ UNCHANGED << schedVars, postDelVars, runnerVars, fnIn >>

AggregateSpec == AggregateInit /\ [][AggregateCall]_vars

\* The lists f[1], ..., f[n] one after another.
RECURSIVE InOrder(_, _)
InOrder(f, n) == IF n = 0 THEN << >> ELSE InOrder(f, n - 1) \o f[n]

RECURSIVE Added(_, _)
Added(f, n) == IF n = 0 THEN 0 ELSE Added(f, n - 1) + f[n]

\* The latencies result r has for URL u.
LatenciesFor(r, u) == IF u \in DOMAIN r.latencies THEN r.latencies[u] ELSE << >>

\* C31: the aggregated result has, for every URL, the per-spec latency lists
\* one after another in spec order (and no URL that no spec has), the
\* per-spec error lists one after another, bytes, total and duration equal to
\* the sums of the per-spec values; the per-spec results are returned as
\* Schedule gave them.
C31_AggregateConcatenatesAndSums ==
    fnOut.returned =>
        LET n == Len(fnIn)
            a == fnOut.aggregated
        IN /\ fnOut.results = fnIn
           /\ DOMAIN a.latencies = UNION { DOMAIN fnIn[i].latencies : i \in 1..n }
           /\ \A u \in ResultURLs :
                 LatenciesFor(a, u) = InOrder([i \in 1..n |-> LatenciesFor(fnIn[i], u)], n)
           /\ a.errors = InOrder([i \in 1..n |-> fnIn[i].errors], n)
           /\ a.totalReceivedBytes = Added([i \in 1..n |-> fnIn[i].totalReceivedBytes], n)
           /\ a.total = Added([i \in 1..n |-> fnIn[i].total], n)
           /\ a.duration = Added([i \in 1..n |-> fnIn[i].duration], n)

\* Two results with different latencies for one URL, different errors and
\* nonzero sums have been aggregated.
C31_Witness ==
    /\ fnOut.returned
    /\ Len(fnIn) = 2
    /\ LatenciesFor(fnIn[1], "u1") = << 1, 2 >>
    /\ LatenciesFor(fnIn[2], "u1") = << 2 >>
    /\ fnIn[1].errors = << "e2", "e1" >>
    /\ fnIn[2].errors = << "e1" >>
    /\ fnIn[1].total = 1 /\ fnIn[2].total = 1

\* ------------------------------------------ overrides of a weighted-random config

\* The keys of an overrides map and the values under them: a float64, an int
\* or a string.
OverrideKeys == {"rate", "total", "duration", "unknown"}
OverrideValues ==
    { [type |-> "float64", value |-> 7], [type |-> "int", value |-> 7],
      [type |-> "string", value |-> 0] }

\* The overrides maps: some of the keys, each with a value.
OverrideMaps == UNION { [ks -> OverrideValues] : ks \in SUBSET OverrideKeys }

\* The configs ApplyOverrides is called on.
ConfigsDrawn ==
    { [rate |-> 1, total |-> t, duration |-> d, requests |-> << GoodRequest >>] :
        t \in {0, 2}, d \in {0, 3} }

\* The type ApplyOverrides asserts for the value of a key.
OverrideType(key) == IF key = "rate" THEN "float64" ELSE "int"

\* An override of the total that clears the duration with it.
ApplyOverride_TotalClearsDuration(c, key, value) ==
    CASE key \notin {"rate", "total", "duration"} ->
           [err |-> "unknown override key", config |-> c]
      [] value.type # OverrideType(key) ->
           [err |-> key \o " must be " \o OverrideType(key), config |-> c]
      [] key = "rate"     -> [err |-> Nil, config |-> [c EXCEPT !.rate = value.value]]
      [] key = "total"    -> [err |-> Nil, config |-> [c EXCEPT !.total = value.value,
                                                                !.duration = 0]]
      [] key = "duration" -> [err |-> Nil, config |-> [c EXCEPT !.duration = value.value]]

\* The body of the loop of ApplyOverrides for one key: the switch on the
\* key and the type assertion on the value.
ApplyOverride(c, key, value) ==
    CASE key \notin {"rate", "total", "duration"} ->
           [err |-> "unknown override key", config |-> c]
      [] value.type # OverrideType(key) ->
           [err |-> key \o " must be " \o OverrideType(key), config |-> c]
      [] key = "rate"     -> [err |-> Nil, config |-> [c EXCEPT !.rate = value.value]]
      [] key = "total"    -> [err |-> Nil, config |-> [c EXCEPT !.total = value.value]]
      [] key = "duration" -> [err |-> Nil, config |-> [c EXCEPT !.duration = value.value]]

\* The orders in which range can visit the keys of a map.
KeyOrders(ks) ==
    { o \in [1..Cardinality(ks) -> ks] : \A i, j \in DOMAIN o : i # j => o[i] # o[j] }

\* ApplyOverrides with the keys visited in order o, from the i-th on: the
\* first error is returned, the fields set before it stay set.
RECURSIVE ApplyOverridesFrom(_, _, _, _)
ApplyOverridesFrom(c, overrides, o, i) ==
    IF i > Len(o)
    THEN [returned |-> TRUE, err |-> Nil, config |-> c]
    ELSE LET r == ApplyOverride(c, o[i], overrides[o[i]])
         IN IF r.err # Nil
            THEN [returned |-> TRUE, err |-> r.err, config |-> r.config]
            ELSE ApplyOverridesFrom(r.config, overrides, o, i + 1)

ApplyOverridesInit ==
    /\ spec = Validate([mode |-> ModeWeightedRandom, total |-> 1, duration |-> 0,
                        client |-> 1, buckets |-> << >>])
    /\ SchedStart
    /\ PostDelIdle
    /\ RunnerIdle
    /\ fnIn \in { [config |-> c, overrides |-> ov] :
                    c \in ConfigsDrawn, ov \in OverrideMaps }
    /\ fnOut = NotReturned

\* c.ApplyOverrides(overrides): range visits the keys in an order of its own.
ApplyOverridesCall ==
    /\ ~fnOut.returned
    /\ \E o \in KeyOrders(DOMAIN fnIn.overrides) :
          fnOut' = ApplyOverridesFrom(fnIn.config, fnIn.overrides, o, 1)
    /\ UNCHANGED << schedVars, postDelVars, runnerVars, fnIn >>

ApplyOverridesSpec == ApplyOverridesInit /\ [][ApplyOverridesCall]_vars

\* Every key of the map is rate with a float64, total with an int or
\* duration with an int.
OverridesWellTyped(ov) ==
    \A k \in DOMAIN ov :
       \/ k = "rate" /\ ov[k].type = "float64"
       \/ k \in {"total", "duration"} /\ ov[k].type = "int"

\* C32: ApplyOverrides with keys among rate (float64), total (int) and
\* duration (int) returns nil, sets exactly the fields named to the values
\* given and leaves the others as they were; with an unknown key or a value
\* of the wrong type it returns an error.
C32_OverridesSetNamedFields ==
    fnOut.returned =>
        LET c == fnIn.config
            ov == fnIn.overrides
            Expected(k) == IF k \in DOMAIN ov THEN ov[k].value ELSE c[k]
        IN IF OverridesWellTyped(ov)
           THEN /\ fnOut.err = Nil
                /\ fnOut.config = [rate |-> Expected("rate"), total |-> Expected("total"),
                                   duration |-> Expected("duration"),
                                   requests |-> c.requests]
           ELSE fnOut.err # Nil

\* The total alone has been overridden on a config with a duration.
C32_Witness ==
    /\ fnOut.returned
    /\ DOMAIN fnIn.overrides = {"total"}
    /\ fnIn.overrides["total"].type = "int"
    /\ fnIn.config.duration = 3
    /\ fnOut.config.total = 7

\* Worker w is in limiter.Wait(ctx) and the call fails: ctx is done when it
\* is entered, or becomes done while the worker is blocked in it.
LimiterFails(w) == (w.pc = "limiter" /\ ctxDone) \/ w.pc = "exiting"

\* C33: a worker whose limiter.Wait returns an error exits in that step: the
\* builder it had received is dropped (no request is started, nothing is
\* recorded), the worker is gone for good, and nothing of the other workers,
\* of Run or of Schedule changes with its exit.  The limiter fails only when
\* Schedule's ctx is done, and then Run is not left parked on the channel:
\* the cancellation that wakes it is on its way.
C33_LimiterErrorExitsWorker ==
    /\ [](\A w \in BagToSet(workers) : w.pc = "exiting" => ctxDone)
    /\ []((ctxDone /\ RunParked) => (callerDone /\ execErr = Nil))
    /\ [][/\ At("exited")' >= At("exited")
          /\ \A w \in BagToSet(workers) :
                (LimiterFails(w) /\ CopiesIn(w, workers') < CopiesIn(w, workers))
                => /\ w.builder.type # Nil
                   /\ workers' = Move(w, Worker("exited", NilBuilder, NoRequester,
                                                NoOutcome))
                   /\ hist' = hist
                   /\ UNCHANGED << metricVars, runVars, mainVars, stopVars, ctxVars >>
         ]_vars

\* A worker has left on a failed limiter.Wait with a builder in hand: fewer
\* requests were started than builders were sent, and no request is in flight.
C33_Witness ==
    /\ spec.mode = ModeWeightedRandom
    /\ At("exited") > 0
    /\ At("limiter") = 0 /\ At("limiterParked") = 0 /\ At("exiting") = 0
    /\ At("build") = 0 /\ At("do") = 0 /\ At("observe") = 0
    /\ hist.doStarted < hist.sent
    /\ ~chClosed

\* C34: the Do of a PostDel requester changes the cache in two cases only: a
\* POST that succeeded pushes its name, a DELETE that failed pushes the name
\* it had popped back; a failed POST and a successful DELETE leave the cache
\* as it is, and a name whose DELETE has succeeded is never in the cache
\* again.
C34_DoChangesCacheInTwoCases ==
    /\ [](\A i \in 1..Len(pdBuilder.cache) : pdBuilder.cache[i] \notin pdHist.deleted)
    /\ [][\A c \in Calls :
            (c.pc = "do" /\ CopiesIn(c, pdCalls') < CopiesIn(c, pdCalls))
            => CASE pdHist'.succPost = pdHist.succPost + 1 ->
                      /\ c.req.operation = "POST"
                      /\ pdBuilder'.cache = pdBuilder.cache \o << c.req.name >>
                 [] pdHist'.failedDel = pdHist.failedDel + 1 ->
                      /\ c.req.operation = "DELETE"
                      /\ pdBuilder'.cache = pdBuilder.cache \o << c.req.name >>
                 [] OTHER ->
                      /\ pdBuilder'.cache = pdBuilder.cache
                      /\ \/ c.req.operation = "POST"
                         \/ /\ c.req.operation = "DELETE"
                            /\ pdHist'.succDel = pdHist.succDel + 1
         ]_vars

\* With no call under way: a POST has failed, a DELETE has failed and a
\* DELETE has succeeded.
C34_Witness ==
    /\ Quiescent
    /\ pdHist.posts > pdHist.succPost
    /\ pdHist.failedDel > 0
    /\ pdHist.succDel > 0

\* C35: in time-series mode, where the workers have no rate limiter, and with
\* no cancellation by the caller, every builder Run has sent is with a worker
\* about to build it or has had its request started, the channel is closed
\* only after Run has returned and nothing panics, and when Schedule has
\* returned every builder sent has been built, executed and recorded once, as
\* a latency or as a failure of its Result.
C35_TimeSeriesBuildersAllRecorded ==
    (spec.mode = ModeTimeSeries /\ ~callerDone)
    => /\ ~panicked
       /\ chClosed => RunReturned
       /\ hist.doStarted + At("build") = hist.sent
       /\ hist.doStarted = Recorded + At("do") + At("observe")
       /\ mainPc = "returned"
             => /\ hist.doStarted = hist.sent
                /\ BagCardinality(result.stats.latencies)
                     + BagCardinality(result.stats.errors) = hist.sent

\* A time-series Schedule the caller did not cancel has returned after Run
\* sent the builders of both buckets.
C35_Witness ==
    /\ spec.mode = ModeTimeSeries /\ ~callerDone
    /\ mainPc = "returned"
    /\ runErr = Nil
    /\ hist.sent >= 2
    /\ BagCardinality(result.stats.errors) > 0

\* C36: a time-series Run that has returned nil has sent as many builders as
\* Metadata().ExpectedTotal, the sum of the bucket request counts, and
\* Schedule reports that number as Result.Total.
C36_TimeSeriesSendsExpectedTotal ==
    (spec.mode = ModeTimeSeries /\ RunReturned /\ runErr = Nil)
    => /\ hist.sent = Metadata(spec).ExpectedTotal
       /\ mainPc = "returned" => result.total = hist.sent

\* ------------------------------------------ weighted-random runs with total = 0

\* Schedule on the validated weighted-random profiles with total = 0, with
\* and without a duration.
UnboundedInit ==
    /\ spec \in { p \in Profiles : p.mode = ModeWeightedRandom /\ p.total = 0 }
    /\ SchedStart
    /\ PostDelIdle
    /\ CallIdle
    /\ RunnerIdle

\* The steps of Schedule in weighted-random mode: no bucket timer, and no
\* clock but the deadline of execCtx.
UnboundedNext ==
    \/ CallerCancel
    \/ PropagateCancel
    \/ DeadlineExceeded
    \/ SpawnWorker
    \/ StartExecutor
    \/ WaitCtxDone
    \/ Stop
    \/ StopWait
    \/ StopClose
    \/ JoinWorkers
    \/ RunStart
    \/ \E w \in BagToSet(workers) : RunSend(w)
    \/ RunSendOnClosed
    \/ RunCtxDone
    \/ RunECtxDone
    \/ RunPark
    \/ RunReturn
    \/ SignalCompletion
    \/ \E w \in BagToSet(workers) : WorkerReceive(w)
    \/ \E w \in BagToSet(workers) : WorkerLimiterWait(w)
    \/ \E w \in BagToSet(workers) : WorkerLimiterGranted(w)
    \/ \E w \in BagToSet(workers) : WorkerLimiterFailed(w)
    \/ \E w \in BagToSet(workers) : WorkerBuild(w)
    \/ \E w \in BagToSet(workers) : WorkerDoReturn(w)
    \/ \E w \in BagToSet(workers) : WorkerObserve(w)

\* The goroutines' steps are taken while one of them can run, every Do
\* returns and the deadline of execCtx passes; the caller need not cancel.
UnboundedFairSpec ==
    UnboundedInit /\ [][UnboundedNext]_vars /\ WF_vars(Progress /\ UnboundedNext)

\* C37: a weighted-random Run with total = 0 returns only through a context,
\* with that context's error.  With duration > 0 and no cancellation by the
\* caller the deadline of execCtx ends it and Schedule then returns, with
\* Result.Total = 0; with duration = 0 Run does not return until the caller
\* has cancelled, and until then it sends every builder a worker takes (as
\* far as the run is followed).
C37_UnboundedRunStopsByContext ==
    /\ [](runPc \in {"returning", "returned", "finished"}
             => /\ runErr # Nil
                /\ runErr = "ctx" => execErr # Nil
                /\ runErr = "ectx" => ectxDone)
    /\ []((mainPc = "returned") => result.total = 0)
    /\ []((spec.duration = 0 /\ ~callerDone)
             => /\ runPc \in {"none", "start", "select", "parked"}
                /\ sum = hist.sent
                /\ ~ctxDone /\ execErr = Nil /\ ~ectxDone
                /\ mainPc \in {"spawn", "waitCtx"})
    /\ []((spec.duration > 0 /\ ~callerDone /\ RunReturned) => execErr = "deadline")
    /\ (spec.duration > 0)
          => <>(callerDone \/ (mainPc = "returned" /\ execErr = "deadline"
                               /\ result.total = 0))

\* A run with a duration has sent a builder, was ended by the deadline, and
\* Schedule has returned without the caller cancelling.
C37_Witness ==
    /\ spec.mode = ModeWeightedRandom /\ spec.total = 0 /\ spec.duration > 0
    /\ ~callerDone
    /\ hist.sent = MaxUnboundedSends
    /\ execErr = "deadline"
    /\ mainPc = "returned"

\* C38: for every list of shares that validation accepts, none below zero,
\* the list of zeros and the empty list among them, randomPick returns a
\* builder without panicking.
C38_PickNeverPanics ==
    (fnOut.returned /\ SharesValid(fnIn.shares))
    => /\ fnOut.panic = Nil
       /\ fnOut.index \in 1..Len(fnIn.shares)

\* ------------------------------------------------- Build of an exact request

\* The exact requests followed: every method of ExactRequest and one that is
\* none, with and without a group, a namespace and a name, and with a patch
\* type that is one or is not.
ExactRequests ==
    { [method |-> m, group |-> g, version |-> "v1", resource |-> "pods",
       namespace |-> ns, name |-> n, patchType |-> pt] :
        m \in {"GET", "LIST", "POST", "PUT", "PATCH", "DELETE", "TRACE"},
        g \in {"", "apps"}, ns \in {"", "default"}, n \in {"", "p1"},
        pt \in {"", "merge", "yaml"} }

\* rand.Int(rand.Reader, max) panics when max <= 0.
RandIntPanics(max) == max <= 0

\* builder.Build(cli) as a worker calls it: the requesters it can return, or
\* the panic of rand.Int in the patch builder.
BuildOutcomes(b) ==
    IF b.type = "patch" /\ RandIntPanics(b.keySpaceSize)
    THEN { [panic |-> "crypto/rand: argument to Int is <= 0", req |-> NoRequester] }
    ELSE { [panic |-> Nil,
            req |-> [method |-> Build(b, draw).method, path |-> Build(b, draw).path]] :
              draw \in BuildDraws(b) }

ExactBuildInit ==
    /\ spec = Validate([mode |-> ModeWeightedRandom, total |-> 1, duration |-> 0,
                        client |-> 1, buckets |-> << >>])
    /\ SchedStart
    /\ PostDelIdle
    /\ RunnerIdle
    /\ fnIn \in ExactRequests
    /\ fnOut = NotReturned

\* createBuilderForExactRequest(&req) in Run and, for a builder that is not
\* nil, builder.Build(cli) in the worker that receives it.
ExactBuildCall ==
    /\ ~fnOut.returned
    /\ LET b == createBuilderForExactRequest(fnIn)
       IN IF b.type = Nil
          THEN fnOut' = [returned |-> TRUE, built |-> FALSE, panic |-> Nil,
                         req |-> NoRequester]
          ELSE \E o \in BuildOutcomes(b) :
                  fnOut' = [returned |-> TRUE, built |-> TRUE, panic |-> o.panic,
                            req |-> o.req]
    /\ UNCHANGED << schedVars, postDelVars, runnerVars, fnIn >>

ExactBuildSpec == ExactBuildInit /\ [][ExactBuildCall]_vars

\* C39: every builder the exact-request factory returns is built without a
\* panic, and the builder of an exact PATCH gives a PATCH of the object the
\* request names.
C39_ExactBuildersBuild ==
    (fnOut.returned /\ createBuilderForExactRequest(fnIn).type # Nil)
    => /\ fnOut.panic = Nil
       /\ fnIn.method = "PATCH"
             => /\ fnOut.req.method = "PATCH"
                /\ fnOut.req.path[Len(fnOut.req.path)] = fnIn.name

\* ------------------------------------------------------- the worker pool

\* Specs with Conns next to Client, Client = 0 among them: weighted-random
\* with a total, weighted-random with a duration, and time-series.
PoolProfiles ==
    { [Validate([mode |-> ModeWeightedRandom, total |-> 2, duration |-> 0,
                 client |-> c.client, buckets |-> << >>])
          EXCEPT !.client = c.client] @@ [conns |-> c.conns] :
        c \in { [client |-> 0, conns |-> 2], [client |-> 1, conns |-> 2] } }
    \cup
    { Validate([mode |-> ModeWeightedRandom, total |-> 0, duration |-> 1,
                client |-> 0, buckets |-> << >>]) @@ [conns |-> 1],
      [mode |-> ModeTimeSeries, total |-> 0, duration |-> 0, client |-> 0,
       buckets |-> BucketsAscending, conns |-> 1] }

PoolInit ==
    /\ spec \in PoolProfiles
    /\ SchedStart
    /\ PostDelIdle
    /\ CallIdle
    /\ RunnerIdle

PoolSpec == PoolInit /\ [][Next]_vars

\* The workers that hold a builder they have received and not yet built.
HoldingBuilder == { w \in BagToSet(workers) : w.builder.type # Nil }

RECURSIVE CopiesAmong(_)
CopiesAmong(S) ==
    IF S = {} THEN 0
    ELSE LET w == CHOOSE x \in S : TRUE IN CopiesIn(w, workers) + CopiesAmong(S \ {w})

\* C40: at every moment of Schedule the requests in flight are at most the
\* workers, spec.client of them, or spec.conns when client is 0; and the
\* executor is never ahead of the workers by more than the builder in its
\* select: every send it has completed is a builder a worker has received
\* (Run's count is the receipts), held by that worker until it is built
\* unless the worker left on the limiter's error after ctx was done.
C40_InFlightWithinWorkers ==
    LET pool == IF spec.client = 0 THEN spec.conns ELSE spec.client
    IN /\ spawned <= pool
       /\ BagCardinality(workers) = spawned
       /\ At("do") <= pool
       /\ CopiesAmong(HoldingBuilder) + At("do") + At("observe") <= spawned
       /\ spec.mode = ModeWeightedRandom => sum = hist.sent
       /\ hist.sent - hist.doStarted >= CopiesAmong(HoldingBuilder)
       /\ ~ctxDone => hist.sent - hist.doStarted = CopiesAmong(HoldingBuilder)

\* A spec with client = 0 and conns = 2: both workers have a request in
\* flight.
C40_Witness ==
    /\ spec.client = 0 /\ spec.conns = 2
    /\ At("do") = 2

====
